---- MODULE Spec2Model ----
(***************************************************************************)
(* Model of the PLC lighting transmitter bridge (api/src/lighting).        *)
(*                                                                         *)
(* A byte string (Python bytes / ASCII str) is a sequence of one-character *)
(* strings; a byte of a binary payload is written "xNN" (two hex digits).  *)
(* A synchronous request handler is run one port call at a time against a *)
(* serial port whose reads the device answers from a set of replies.       *)
(* The network-discovery websocket handler is modelled step by step, one   *)
(* action per event-loop step of its two tasks.                            *)
(***************************************************************************)
EXTENDS Integers, Sequences, FiniteSets, TLC

VARIABLES
    op,         \* name of the handler or helper called ("none" at start)
    args,       \* its arguments
    script,     \* the replies the device has given to the handler's reads
    log,        \* the port calls the handler has made, in order
    run,        \* the handler run against the replies given so far
    other,      \* a second request, served while or after the first
    tx,         \* frames written to the serial port, in order
    reads,      \* number of readline() calls made
    opens,      \* number of Serial(...) opened
    closes,     \* number of Serial closed
    peak,       \* largest number of Serial open at the same time
    result,     \* outcome of the call: return value or the exception raised
    sess,       \* rebuild: position of the handler coroutine
    startPc,    \* rebuild: position of the start() task
    streamPc,   \* rebuild: position of the streaming() task
    pending,    \* rebuild: lines returned by readlines() not yet forwarded
    serIn,      \* rebuild: lines buffered in the serial port
    wsIn,       \* rebuild: messages from the peer not yet received
    wsOut,      \* rebuild: number of texts sent to the peer
    peerClosed, \* rebuild: the peer has disconnected
    aborted,    \* rebuild: the task group has cancelled its tasks
    drained,    \* rebuild: the lines after the task group were executed
    devLeft,    \* rebuild: lines the device may still emit
    peerLeft    \* rebuild: texts the peer may still send

callVars == <<op, args, script, result>>
portVars == <<tx, reads, opens, closes, peak>>
rebuildVars == <<sess, startPc, streamPc, pending, serIn, wsIn, wsOut,
                 peerClosed, aborted, drained, devLeft, peerLeft>>
vars == <<callVars, log, run, other, portVars, rebuildVars>>

---------------------------------------------------------------------------
(* Bounds *)

MaxScript == 3      \* longest reply script
MaxStaList == 5     \* longest whitelist passed to set_whitelist
MaxDevLines == 2    \* lines the device emits during one discovery session
MaxPeerMsgs == 2    \* texts the peer sends during one discovery session
MaxShortScript == 2 \* longest reply script of a handler that reads one or two lines
MaxLongScript == 4  \* longest reply script of a handler that reads more than two lines

---------------------------------------------------------------------------
(* Literals of the source *)

AT_MARK == <<"@", "@">>
HASH_MARK == <<"#", "#">>
COLON == ":"
LF == "\n"
CRCRLF == <<"\r", "\r", "\n">>
WHUSEING == <<"W", "H", "U", "S", "E", "I", "N", "G">>
WHBUSY == <<"W", "H", "B", "U", "S", "Y">>
TOPOBUSY == <<"T", "O", "P", "O", "B", "U", "S", "Y">>
STAGROUPBUSY == <<"S", "T", "A", "G", "R", "O", "U", "P", "B", "U", "S", "Y">>
CCO_UID == <<"C", "C", "O", "_", "U", "I", "D">>
SetTxPower == <<"S", "e", "t", "T", "x", "P", "o", "w", "e", "r">>
SET_DEVICE_GROUP == <<"S", "E", "T", "_", "D", "E", "V", "I", "C", "E", "_", "G", "R", "O", "U", "P">>
GROUPS == <<"G", "R", "O", "U", "P", "S">>
GETSTAGROUPS == <<"G", "E", "T", "S", "T", "A", "G", "R", "O", "U", "P", "S">>
SetDeviceIP == <<"S", "e", "t", "D", "e", "v", "i", "c", "e", "I", "P">>
GETTYPE == <<"G", "E", "T", "T", "Y", "P", "E">>
GETDIMS == <<"G", "E", "T", "D", "I", "M", "S">>
GetTxPower == <<"G", "e", "t", "T", "x", "P", "o", "w", "e", "r">>
GetStartContral == <<"G", "e", "t", "S", "t", "a", "r", "t", "C", "o", "n", "t", "r", "a", "l">>
WHMULT == <<"W", "H", "M", "U", "L", "T">>
WHCLR == <<"W", "H", "C", "L", "R">>
WHSTART == <<"W", "H", "S", "T", "A", "R", "T">>
WHMLIST == <<"W", "H", "M", "L", "I", "S", "T">>
WHEND == <<"W", "H", "E", "N", "D">>
DIMALL3 == <<"D", "I", "M", "A", "L", "L", "3">>
REBOOTCCO == <<"R", "E", "B", "O", "O", "T", "C", "C", "O">>
SETTINGSTART == <<"S", "E", "T", "T", "I", "N", "G", "S", "T", "A", "R", "T">>
WHITESTOP == <<"W", "H", "I", "T", "E", "S", "T", "O", "P">>
FFFFFFFF == <<"F", "F", "F", "F", "F", "F", "F", "F">>
GetAccessTime == <<"G", "e", "t", "A", "c", "c", "e", "s", "s", "T", "i", "m", "e">>
GetCCOBand == <<"G", "e", "t", "C", "C", "O", "B", "a", "n", "d">>
GetCCOChannel == <<"G", "e", "t", "C", "C", "O", "C", "h", "a", "n", "n", "e", "l">>
GetModbusAddr == <<"G", "e", "t", "M", "o", "d", "b", "u", "s", "A", "d", "d", "r">>
GetDeviceIP == <<"G", "e", "t", "D", "e", "v", "i", "c", "e", "I", "P">>
STATUS == <<"S", "T", "A", "T", "U", "S">>
STA == <<"S", "T", "A">>

---------------------------------------------------------------------------
(* Python built-ins used by the source *)

startswith(s, p) == Len(p) <= Len(s) /\ SubSeq(s, 1, Len(p)) = p

\* bytes.rstrip(): drop trailing ASCII whitespace
IsSpace(c) == c \in {" ", "\t", "\n", "\r", "x0B", "x0C"}

\* str.isspace() of an ASCII character: the separators 0x1C..0x1F count
isspace(c) == IsSpace(c) \/ c \in {"x1C", "x1D", "x1E", "x1F"}

RECURSIVE rstrip(_)
rstrip(s) ==
    IF s # <<>> /\ IsSpace(s[Len(s)])
    THEN rstrip(SubSeq(s, 1, Len(s) - 1))
    ELSE s

\* bytes.split(sep) for a one-byte separator: the list of fields
RECURSIVE split(_, _)
split(s, sep) ==
    LET at == {i \in 1..Len(s) : s[i] = sep} IN
    IF at = {} THEN <<s>>
    ELSE LET i == CHOOSE j \in at : \A k \in at : j <= k
         IN  <<SubSeq(s, 1, i - 1)>> \o split(SubSeq(s, i + 1, Len(s)), sep)

Digit == <<"0", "1", "2", "3", "4", "5", "6", "7", "8", "9">>

\* str(n) of an int
RECURSIVE str(_)
str(n) ==
    IF n < 0 THEN <<"-">> \o str(0 - n)
    ELSE IF n < 10 THEN <<Digit[n + 1]>>
    ELSE str(n \div 10) \o <<Digit[(n % 10) + 1]>>

\* str.zfill(width): zeros on the left, after a leading sign
RECURSIVE zfill(_, _)
zfill(s, width) ==
    IF Len(s) >= width THEN s
    ELSE IF s # <<>> /\ s[1] \in {"+", "-"} THEN <<s[1]>> \o zfill(Tail(s), width - 1)
    ELSE zfill(<<"0">> \o s, width)

\* sep.join(fields)
RECURSIVE join(_, _)
join(sep, fields) ==
    IF fields = <<>> THEN <<>>
    ELSE IF Len(fields) = 1 THEN fields[1]
    ELSE fields[1] \o sep \o join(sep, Tail(fields))

HexDigit == <<"0", "1", "2", "3", "4", "5", "6", "7", "8", "9", "A", "B", "C", "D", "E", "F">>

\* one byte of a binary payload
Byte(n) == "x" \o HexDigit[(n \div 16) + 1] \o HexDigit[(n % 16) + 1]

\* the length low-order bytes of n >= 0, most significant first
RECURSIVE big_endian(_, _)
big_endian(n, length) ==
    IF length = 0 THEN <<>> ELSE big_endian(n \div 256, length - 1) \o <<Byte(n % 256)>>

\* n >= 256^length, for n >= 0
RECURSIVE too_big(_, _)
too_big(n, length) == IF length = 0 THEN n > 0 ELSE too_big(n \div 256, length - 1)

\* int.to_bytes(length, byteorder="big"); ok is FALSE where it raises
\* OverflowError, with the message in detail
to_bytes(n, length) ==
    IF n < 0
    THEN [ok |-> FALSE, kind |-> "OverflowError", v |-> <<>>,
          detail |-> "can't convert negative int to unsigned"]
    ELSE IF too_big(n, length)
    THEN [ok |-> FALSE, kind |-> "OverflowError", v |-> <<>>,
          detail |-> "int too big to convert"]
    ELSE [ok |-> TRUE, kind |-> "", v |-> big_endian(n, length), detail |-> ""]

\* the concatenation of byte strings computed left to right: the first
\* conversion that raises ends it
RECURSIVE concat(_)
concat(parts) ==
    IF parts = <<>> THEN [ok |-> TRUE, kind |-> "", v |-> <<>>, detail |-> ""]
    ELSE IF ~parts[1].ok THEN parts[1]
    ELSE LET r == concat(Tail(parts)) IN
         IF ~r.ok THEN r ELSE [r EXCEPT !.v = parts[1].v \o @]

\* str.lstrip(): drop leading whitespace
RECURSIVE lstrip(_)
lstrip(s) == IF s # <<>> /\ isspace(s[1]) THEN lstrip(Tail(s)) ELSE s

\* str.split() without a separator: the runs of non-whitespace characters
RECURSIVE split_ws(_)
split_ws(s) ==
    LET t == lstrip(s)
        sp == {i \in 1..Len(t) : isspace(t[i])}
    IN  IF t = <<>> THEN <<>>
        ELSE IF sp = {} THEN <<t>>
        ELSE LET i == CHOOSE j \in sp : \A k \in sp : j <= k
             IN  <<SubSeq(t, 1, i - 1)>> \o split_ws(SubSeq(t, i + 1, Len(t)))

DigitValue(c) == (CHOOSE i \in 1..10 : Digit[i] = c) - 1

isdigit(c) == \E k \in 1..10 : Digit[k] = c

\* the value of a run of decimal digits; the underscores between them are
\* passed over
RECURSIVE digits_value(_)
digits_value(s) ==
    IF s = <<>> THEN 0
    ELSE IF s[Len(s)] = "_" THEN digits_value(SubSeq(s, 1, Len(s) - 1))
    ELSE 10 * digits_value(SubSeq(s, 1, Len(s) - 1)) + DigitValue(s[Len(s)])

\* int(s) of an ASCII str: surrounding whitespace, an optional sign, then
\* decimal digits with single underscores allowed between them; ok is FALSE
\* where int raises ValueError. Around an ASCII literal int skips space, \t,
\* \n, \r, 0x0B and 0x0C only: int("15\x1c") raises, "1\x1c2".split() has two
\* fields
int_unsigned(m) ==
    IF /\ m # <<>>
       /\ \A i \in 1..Len(m) :
             \/ isdigit(m[i])
             \/ /\ m[i] = "_"
                /\ i > 1 /\ i < Len(m)
                /\ isdigit(m[i - 1]) /\ isdigit(m[i + 1])
    THEN [ok |-> TRUE, v |-> digits_value(m)]
    ELSE [ok |-> FALSE, v |-> 0]

int_signed(d) ==
    IF d # <<>> /\ d[1] = "-" THEN [int_unsigned(Tail(d)) EXCEPT !.v = 0 - @]
    ELSE IF d # <<>> /\ d[1] = "+" THEN int_unsigned(Tail(d))
    ELSE int_unsigned(d)

RECURSIVE int_skip(_)
int_skip(s) == IF s # <<>> /\ IsSpace(s[1]) THEN int_skip(Tail(s)) ELSE s

int(s) == int_signed(int_skip(rstrip(s)))

RECURSIVE sum(_)
sum(xs) == IF xs = <<>> THEN 0 ELSE Head(xs) + sum(Tail(xs))

---------------------------------------------------------------------------
(* Outcomes: a return value or the exception that left the call *)

Ok(v) == [kind |-> "ok", status |-> 200, detail |-> "", value |-> v]
Exc(kind, detail) == [kind |-> kind, status |-> 0, detail |-> detail, value |-> <<>>]
HTTPException(status_code, detail) ==
    [kind |-> "HTTPException", status |-> status_code, detail |-> detail, value |-> <<>>]
LightingException(detail) == Exc("LightingException", detail)
NotRun == Exc("none", "")
\* the handler has not returned yet
Running == Exc("running", "")

\* the optional data argument of __encode__: None, str or bytes
None == [t |-> "none", v |-> <<>>]
Text(v) == [t |-> "str", v |-> v]
Raw(v) == [t |-> "bytes", v |-> v]

\* a list in a returned object, as opposed to the str ""
List(v) == [t |-> "list", v |-> v]

---------------------------------------------------------------------------
(* Frame codec *)

\* bytes.decode("ascii") succeeds: no byte of 0x80 or more
NonAscii == {Byte(n) : n \in 128..255}
is_ascii(bytes) == \A i \in 1..Len(bytes) : bytes[i] \notin NonAscii
UnicodeDecodeError == Exc("UnicodeDecodeError", "'ascii' codec can't decode byte")

\* def __decode__(msg, cmd): two parameters; the body reads the name raw,
\* which is neither a parameter nor a global
__decode__(msg, cmd) ==
    LET fields == split(msg, COLON) IN
    IF Len(fields) # 3
    THEN LightingException("Expect 3 fields separated by :")
    ELSE IF ~startswith(fields[1], HASH_MARK)
    THEN (IF is_ascii(fields[1])
          THEN LightingException("Expect response to start with ##")
          ELSE UnicodeDecodeError)
    ELSE IF ~is_ascii(SubSeq(fields[1], 3, Len(fields[1])))
    THEN UnicodeDecodeError
    ELSE IF fields[2] # cmd
    THEN (IF is_ascii(fields[2])
          THEN LightingException("Incorrect command")
          ELSE UnicodeDecodeError)
    ELSE Exc("NameError", "name 'raw' is not defined")

\* a Python call of __decode__ with the positional arguments argv
call__decode__(argv) ==
    IF Len(argv) > 2
    THEN Exc("TypeError", "__decode__() takes 2 positional arguments but 3 were given")
    ELSE IF Len(argv) = 1
    THEN Exc("TypeError", "__decode__() missing 1 required positional argument: 'cmd'")
    ELSE IF Len(argv) = 0
    THEN Exc("TypeError",
             "__decode__() missing 2 required positional arguments: 'msg' and 'cmd'")
    ELSE __decode__(argv[1], argv[2])

\* variant of __encode__ that writes the marker of a response
encode_hash(addr, cmd, data) ==
    LET msg == HASH_MARK \o addr \o <<COLON>> \o cmd IN
    IF data.t = "none" THEN msg \o <<LF>>
    ELSE IF data.t = "str" THEN msg \o <<COLON>> \o data.v \o <<LF>>
    ELSE (msg \o <<COLON>>) \o data.v \o <<LF>>

__encode__(addr, cmd, data) ==
    LET msg == AT_MARK \o addr \o <<COLON>> \o cmd IN
    IF data.t = "none" THEN msg \o <<LF>>
    ELSE IF data.t = "str" THEN msg \o <<COLON>> \o data.v \o <<LF>>
    ELSE (msg \o <<COLON>>) \o data.v \o <<LF>>

busy == {WHUSEING, WHBUSY, TOPOBUSY, STAGROUPBUSY}

\* variant of decode without the busy test
decode_nobusy(res, cmd, raw) ==
    LET r == call__decode__(<<res, cmd, raw>>) IN
    IF r.kind = "LightingException" THEN HTTPException(500, r.detail) ELSE r

decode(res, cmd, raw) ==
    IF \E b \in busy : startswith(res, b)
    THEN HTTPException(503, "Transmitter busy")
    ELSE LET r == call__decode__(<<res, cmd, raw>>) IN
         IF r.kind = "LightingException" THEN HTTPException(500, r.detail)
         ELSE r

---------------------------------------------------------------------------
(* Serial port: writes are logged, reads are answered from a reply script *)

\* a script entry is a line, <<>> (the read times out) or ECHO
ECHO == <<"ECHO">>

\* the transmitter's well-formed reply to a frame: ## + address + : + command
\* + : + data + CR CR LF, with the address, command and data of the frame
echo(frame) ==
    LET body == SubSeq(frame, Len(AT_MARK) + 1, Len(frame) - 1) IN
    HASH_MARK \o body
        \o (IF Len(split(body, COLON)) = 2 THEN <<COLON>> ELSE <<>>)
        \o CRCRLF

\* a call of the serial port's interface, in the order the handler makes them
PortCall(e, f) == [e |-> e, f |-> f]

NewPort(sc) ==
    [tx |-> <<>>, rx |-> sc, reads |-> 0, opens |-> 0, closes |-> 0, peak |-> 0,
     exc |-> Ok(<<>>), log |-> <<>>]

\* with Serial(portname, timeout=timeout) as lora:
Serial(s) ==
    LET held == s.opens + 1 - s.closes IN
    [s EXCEPT !.opens = @ + 1, !.peak = IF held > @ THEN held ELSE @,
              !.log = Append(@, PortCall("open", <<>>))]

\* variant of close that releases the port only when the block returns
close_on_return(s) ==
    IF s.exc.kind = "ok"
    THEN [s EXCEPT !.closes = @ + 1, !.log = Append(@, PortCall("close", <<>>))]
    ELSE s

\* leaving the with block, by return or by exception
close(s) == [s EXCEPT !.closes = @ + 1, !.log = Append(@, PortCall("close", <<>>))]

write(s, bytes) ==
    [s EXCEPT !.tx = Append(@, bytes), !.log = Append(@, PortCall("write", bytes))]

\* lora.readline(): the next line, or empty when the timeout elapses
readline(s) ==
    LET e == IF s.rx = <<>> THEN <<>> ELSE Head(s.rx)
        line == IF e = ECHO
                THEN (IF s.tx = <<>> THEN <<>> ELSE echo(s.tx[Len(s.tx)]))
                ELSE e
    IN  [s   |-> [s EXCEPT !.rx = IF @ = <<>> THEN <<>> ELSE Tail(@),
                            !.reads = @ + 1,
                            !.log = Append(@, PortCall("readline", <<>>))],
         res |-> line]

Raise(s, e) == [s EXCEPT !.exc = e]
Return(s, v) == [s EXCEPT !.exc = Ok(v)]

send(s, addr, cmd, data) == write(s, __encode__(addr, cmd, data))

\* variant of receive that reads once more after an empty read
receive_retry(s) ==
    LET r == readline(s)
        q == readline(r.s)
    IN  IF Len(r.res) # 0 THEN [s |-> r.s, res |-> r.res, exc |-> Ok(<<>>)]
        ELSE IF Len(q.res) # 0 THEN [s |-> q.s, res |-> q.res, exc |-> Ok(<<>>)]
        ELSE [s |-> q.s, res |-> q.res,
              exc |-> HTTPException(500, "LoRa response timeout")]

\* variant of receive that returns an empty read to its caller
receive_silent(s) ==
    LET r == readline(s) IN [s |-> r.s, res |-> r.res, exc |-> Ok(<<>>)]

receive(s) ==
    LET r == readline(s) IN
    IF Len(r.res) = 0
    THEN [s |-> r.s, res |-> r.res, exc |-> HTTPException(500, "LoRa response timeout")]
    ELSE [s |-> r.s, res |-> r.res, exc |-> Ok(<<>>)]

---------------------------------------------------------------------------
(* Request handlers *)

list_cco(s0) ==
    LET cco_uid == FFFFFFFF
        cmd == CCO_UID
        s1 == send(Serial(s0), cco_uid, cmd, None)
        r == receive(s1)
        d == decode(r.res, cmd, FALSE)
    IN  close(IF r.exc.kind # "ok" THEN Raise(r.s, r.exc)
              ELSE IF d.kind # "ok" THEN Raise(r.s, d)
              ELSE Return(r.s, d.value[1]))

get_control_mode(s0, cco_uid) ==
    LET cmd == GETTYPE
        s1 == send(Serial(s0), cco_uid, cmd, None)
        r == receive(s1)
        d == decode(r.res, cmd, FALSE)
        data == d.value[2]
    IN  close(IF r.exc.kind # "ok" THEN Raise(r.s, r.exc)
              ELSE IF d.kind # "ok" THEN Raise(r.s, d)
              ELSE IF Len(data) < 9
              THEN Raise(r.s, Exc("IndexError", "string index out of range"))
              ELSE Return(r.s, [analog |-> data[1] = "1", button |-> data[3] = "1",
                                modbus |-> data[5] = "1", bacnet |-> data[7] = "1",
                                debug |-> data[9] = "1"]))

\* variant of control_mode_data that sends the button flag as it is given
control_mode_data_button(control_mode) ==
    LET data_list == << IF control_mode.analog THEN <<"1">> ELSE <<"0">>,
                        IF control_mode.button THEN <<"1">> ELSE <<"0">>,
                        IF control_mode.modbus THEN <<"1">> ELSE <<"0">>,
                        IF control_mode.bacnet THEN <<"1">> ELSE <<"0">>,
                        IF control_mode.debug THEN <<"1">> ELSE <<"0">> >>
    IN  join(<<" ">>, data_list)

\* the data text set_control_mode sends: button mode is always enabled
control_mode_data(control_mode) ==
    LET data_list == << IF control_mode.analog THEN <<"1">> ELSE <<"0">>,
                        <<"1">>,
                        IF control_mode.modbus THEN <<"1">> ELSE <<"0">>,
                        IF control_mode.bacnet THEN <<"1">> ELSE <<"0">>,
                        IF control_mode.debug THEN <<"1">> ELSE <<"0">> >>
    IN  join(<<" ">>, data_list)

set_control_mode(s0, cco_uid, control_mode) ==
    LET cmd == <<"S", "E", "T", "T", "Y", "P", "E">>
        data == control_mode_data(control_mode)
        s1 == send(Serial(s0), cco_uid, cmd, Text(data))
        r == receive(s1)
        d == decode(r.res, cmd, FALSE)
    IN  close(IF r.exc.kind # "ok" THEN Raise(r.s, r.exc)
              ELSE IF d.kind # "ok" THEN Raise(r.s, d)
              ELSE IF data # d.value[2]
              THEN Raise(r.s, HTTPException(500, "Dimming mode response does not match"))
              ELSE Return(r.s, <<>>))

\* set_control_mode(...) runs to its end, port closed, before the second with
reset_control_mode(s0, cco_uid) ==
    LET c == set_control_mode(s0, cco_uid,
                              [analog |-> TRUE, button |-> TRUE, modbus |-> TRUE,
                               bacnet |-> TRUE, debug |-> TRUE])
        cmd == <<"R", "E", "S", "E", "T", "1", "0", "V">>
    IN  IF c.exc.kind # "ok" THEN c
        ELSE close(Return(send(Serial(c), cco_uid, cmd, None), <<>>))

set_txpower(s0, cco_uid, txpower) ==
    LET cmd == SetTxPower
        data == str(txpower)
        s1 == send(Serial(s0), cco_uid, cmd, Text(data))
        r == receive(s1)
        d == decode(r.res, cmd, FALSE)
    IN  close(IF r.exc.kind # "ok" THEN Raise(r.s, r.exc)
              ELSE IF d.kind # "ok" THEN Raise(r.s, d)
              ELSE IF d.value[2] # data
              THEN Raise(r.s, HTTPException(500, "CCO TX power setting inconsistent"))
              ELSE Return(r.s, <<>>))

get_txpower(s0, cco_uid) ==
    LET cmd == GetTxPower
        s1 == send(Serial(s0), cco_uid, cmd, None)
        r == receive(s1)
        d == decode(r.res, cmd, FALSE)
        txpower == int(d.value[2])
    IN  close(IF r.exc.kind # "ok" THEN Raise(r.s, r.exc)
              ELSE IF d.kind # "ok" THEN Raise(r.s, d)
              ELSE IF ~txpower.ok
              THEN Raise(r.s, Exc("ValueError", "invalid literal for int()"))
              ELSE Return(r.s, [txpower |-> txpower.v]))

set_access_time(s0, cco_uid, access_time) ==
    LET cmd == <<"S", "e", "t", "A", "c", "c", "e", "s", "s", "T", "i", "m", "e">>
        data == str(access_time)
        s1 == send(Serial(s0), cco_uid, cmd, Text(data))
        r == receive(s1)
        d == decode(r.res, cmd, FALSE)
    IN  close(IF r.exc.kind # "ok" THEN Raise(r.s, r.exc)
              ELSE IF d.kind # "ok" THEN Raise(r.s, d)
              ELSE IF d.value[2] # data
              THEN Raise(r.s, HTTPException(500, "CCO access time setting inconsistent"))
              ELSE Return(r.s, <<>>))

set_frequency_band(s0, cco_uid, band) ==
    LET cmd == <<"S", "e", "t", "C", "C", "O", "B", "a", "n", "d">>
        data == str(band)
        s1 == send(Serial(s0), cco_uid, cmd, Text(data))
        r == receive(s1)
        d == decode(r.res, cmd, FALSE)
    IN  close(IF r.exc.kind # "ok" THEN Raise(r.s, r.exc)
              ELSE IF d.kind # "ok" THEN Raise(r.s, d)
              ELSE IF d.value[2] # data
              THEN Raise(r.s, HTTPException(500, "Transmitter band setting inconsistent"))
              ELSE Return(r.s, <<>>))

set_dimming_channel(s0, cco_uid, channel_count) ==
    LET cmd == <<"S", "e", "t", "C", "C", "O", "C", "h", "a", "n", "n", "e", "l">>
        data == str(channel_count)
        s1 == send(Serial(s0), cco_uid, cmd, Text(data))
        r == receive(s1)
        d == decode(r.res, cmd, FALSE)
    IN  close(IF r.exc.kind # "ok" THEN Raise(r.s, r.exc)
              ELSE IF d.kind # "ok" THEN Raise(r.s, d)
              ELSE IF d.value[2] # data
              THEN Raise(r.s, HTTPException(500, "Transmitter dimming channel setting inconsistent"))
              ELSE Return(r.s, <<>>))

set_modbus_rtu_node_address(s0, cco_uid, address) ==
    LET cmd == <<"S", "e", "t", "M", "o", "d", "b", "u", "s", "A", "d", "d", "r">>
        data == str(address)
        s1 == send(Serial(s0), cco_uid, cmd, Text(data))
        r == receive(s1)
        d == decode(r.res, cmd, FALSE)
    IN  close(IF r.exc.kind # "ok" THEN Raise(r.s, r.exc)
              ELSE IF d.kind # "ok" THEN Raise(r.s, d)
              ELSE IF d.value[2] # data
              THEN Raise(r.s, HTTPException(500, "Modbus node address setting inconsistent"))
              ELSE Return(r.s, <<>>))

\* StartupControl(...) accepts a default_dimming of 0 to 100
get_startup_control(s0, cco_uid) ==
    LET cmd == GetStartContral
        s1 == send(Serial(s0), cco_uid, cmd, None)
        r == receive(s1)
        d == decode(r.res, cmd, FALSE)
        rx_list == split(d.value[2], " ")
        is_enabled == rx_list[1] = <<"1">>
        default_dimming == int(rx_list[2])
    IN  close(IF r.exc.kind # "ok" THEN Raise(r.s, r.exc)
              ELSE IF d.kind # "ok" THEN Raise(r.s, d)
              ELSE IF Len(rx_list) < 2
              THEN Raise(r.s, Exc("IndexError", "list index out of range"))
              ELSE IF ~default_dimming.ok
              THEN Raise(r.s, Exc("ValueError", "invalid literal for int()"))
              ELSE IF Len(rx_list) < 3
              THEN Raise(r.s, Exc("IndexError", "list index out of range"))
              ELSE IF ~int(rx_list[3]).ok
              THEN Raise(r.s, Exc("ValueError", "invalid literal for int()"))
              ELSE IF default_dimming.v > 100
              THEN Raise(r.s, Exc("ValidationError", "default_dimming"))
              ELSE Return(r.s, [is_enabled |-> is_enabled,
                                default_dimming |-> default_dimming.v]))

\* ramp_up_duration is meaningless but required in communication
set_startup_control(s0, cco_uid, startup_control) ==
    LET cmd == <<"S", "e", "t", "S", "t", "a", "r", "t", "C", "o", "n", "t", "r", "a", "l">>
        is_enabled == IF startup_control.is_enabled THEN <<"1">> ELSE <<"0">>
        default_dimming == str(startup_control.default_dimming)
        ramp_up_duration == <<"1", "0">>
        data == join(<<" ">>, <<is_enabled, default_dimming, ramp_up_duration>>)
        s1 == send(Serial(s0), cco_uid, cmd, Text(data))
        r == receive(s1)
        d == decode(r.res, cmd, FALSE)
    IN  close(IF r.exc.kind # "ok" THEN Raise(r.s, r.exc)
              ELSE IF d.kind # "ok" THEN Raise(r.s, d)
              ELSE IF d.value[2] # data
              THEN Raise(r.s, HTTPException(500, "Startup control setting inconsistent"))
              ELSE Return(r.s, <<>>))

\* the second reply of set_sta_group
set_sta_group_2(s, sta_uid, group) ==
    LET r == receive(s)
        d == decode(r.res, SET_DEVICE_GROUP, FALSE)
        group_res == int(SubSeq(d.value[2], Len(sta_uid) + 1, Len(d.value[2])))
    IN  IF r.exc.kind # "ok" THEN Raise(r.s, r.exc)
        ELSE IF d.kind # "ok" THEN Raise(r.s, d)
        ELSE IF ~startswith(d.value[2], sta_uid)
        THEN Raise(r.s, HTTPException(500, "STA UID response does not match"))
        ELSE IF ~group_res.ok
        THEN Raise(r.s, Exc("ValueError", "invalid literal for int()"))
        ELSE IF group # group_res.v
        THEN Raise(r.s, HTTPException(500, "STA group ID does not match"))
        ELSE Return(r.s, <<>>)

\* group: Query(title="Group ID", min=1, max=8); the body never tests it
set_sta_group(s0, cco_uid, sta_uid, group) ==
    LET cmd == SET_DEVICE_GROUP
        data == sta_uid \o zfill(str(group), 12) \o <<"0", "1">>
        s1 == send(Serial(s0), cco_uid, cmd, Text(data))
        r == receive(s1)
        d == decode(r.res, GROUPS, FALSE)
    IN  close(IF r.exc.kind # "ok" THEN Raise(r.s, r.exc)
              ELSE IF d.kind # "ok" THEN Raise(r.s, d)
              ELSE IF d.value[2] # sta_uid
              THEN Raise(r.s, HTTPException(500, "STA UID response does not match"))
              ELSE set_sta_group_2(r.s, sta_uid, group))

\* Dimming(dimming_levels=...) accepts a list of exactly three integers
get_dim_broadcast(s0, cco_uid) ==
    LET cmd == GETDIMS
        s1 == send(Serial(s0), cco_uid, cmd, None)
        r == receive(s1)
        d == decode(r.res, cmd, FALSE)
        parts == split_ws(d.value[2])
    IN  close(IF r.exc.kind # "ok" THEN Raise(r.s, r.exc)
              ELSE IF d.kind # "ok" THEN Raise(r.s, d)
              ELSE IF \E i \in 1..Len(parts) : ~int(parts[i]).ok
              THEN Raise(r.s, Exc("ValueError", "invalid literal for int()"))
              ELSE IF Len(parts) # 3
              THEN Raise(r.s, Exc("ValidationError", "dimming_levels"))
              ELSE Return(r.s, [dimming_levels |-> [i \in 1..3 |-> int(parts[i]).v]]))

\* the separator between cmd and data is a single space; no response is read
dim_broadcast(s0, cco_uid, dimming_levels) ==
    LET cmd == <<"S", "E", "T", "D", "I", "M", "S">>
        data == join(<<" ">>, [i \in 1..Len(dimming_levels) |-> str(dimming_levels[i])])
        temp == rstrip(__encode__(cco_uid, cmd, None))
    IN  close(Return(write(Serial(s0), temp \o <<" ">> \o data \o <<LF>>), <<>>))

\* the second reply of get_sta_group
get_sta_group_2(s, sta_uid) ==
    LET r == receive(s)
        d == decode(r.res, SET_DEVICE_GROUP, FALSE)
        group == int(SubSeq(d.value[2], Len(sta_uid) + 1, Len(d.value[2])))
    IN  IF r.exc.kind # "ok" THEN Raise(r.s, r.exc)
        ELSE IF d.kind # "ok" THEN Raise(r.s, d)
        ELSE IF ~startswith(d.value[2], sta_uid)
        THEN Raise(r.s, HTTPException(500, "STA UID response does not match"))
        ELSE IF ~group.ok THEN Raise(r.s, Exc("ValueError", "invalid literal for int()"))
        ELSE Return(r.s, [group_id |-> group.v])

get_sta_group(s0, cco_uid, sta_uid) ==
    LET cmd == SET_DEVICE_GROUP
        data == sta_uid \o [i \in 1..12 |-> "0"] \o <<"0", "0">>
        s1 == send(Serial(s0), cco_uid, cmd, Text(data))
        r == receive(s1)
        d == decode(r.res, GROUPS, FALSE)
    IN  close(IF r.exc.kind # "ok" THEN Raise(r.s, r.exc)
              ELSE IF d.kind # "ok" THEN Raise(r.s, d)
              ELSE IF d.value[2] # sta_uid
              THEN Raise(r.s, HTTPException(500, "STA UID response does not match"))
              ELSE get_sta_group_2(r.s, sta_uid))

\* res != "": res is a bytes object and "" a str; the two never compare equal
bytes_eq_str(res, text) == FALSE

\* the while loop of get_all_sta_groups, entered with the lists built so far
RECURSIVE get_all_sta_groups_loop(_, _, _)
get_all_sta_groups_loop(s, sta_uids, group_ids) ==
    LET rl == readline(s)
        d1 == decode(rl.res, GROUPS, FALSE)
        r == receive(rl.s)
        d2 == decode(r.res, SET_DEVICE_GROUP, FALSE)
        group_id == int(SubSeq(d2.value[2], Len(d1.value[2]) + 1, Len(d2.value[2])))
    IN  IF bytes_eq_str(rl.res, <<>>)
        THEN Return(rl.s, [sta_uids |-> List(sta_uids), group_ids |-> List(group_ids)])
        ELSE IF d1.kind = "HTTPException"
        THEN Return(rl.s, [sta_uids |-> Text(<<>>), group_ids |-> Text(<<>>)])
        ELSE IF d1.kind # "ok" THEN Raise(rl.s, d1)
        ELSE IF r.exc.kind # "ok" THEN Raise(r.s, r.exc)
        ELSE IF d2.kind # "ok" THEN Raise(r.s, d2)
        ELSE IF ~startswith(d2.value[2], d1.value[2])
        THEN Raise(r.s, HTTPException(500, "STA_UID response does not match"))
        ELSE IF ~group_id.ok THEN Raise(r.s, Exc("ValueError", "invalid literal for int()"))
        ELSE get_all_sta_groups_loop(r.s, Append(sta_uids, d1.value[2]),
                                     Append(group_ids, group_id.v))

get_all_sta_groups(s0, cco_uid) ==
    LET s1 == send(Serial(s0), cco_uid, GETSTAGROUPS, None)
    IN  close(get_all_sta_groups_loop(s1, <<>>, <<>>))

\* str(addr) of an IPv4Address, held as its four octets: dotted decimal
str_ip(addr) == join(<<".">>, [i \in 1..4 |-> str(addr[i])])

\* variant of ip_address_sum that adds the characters of the octets' digits
ip_address_sum_digits(addr) ==
    LET text == str_ip(addr)
        ds == SelectSeq(text, LAMBDA c : c # ".")
    IN  sum([i \in 1..Len(ds) |-> int(<<ds[i]>>).v])

ip_address_sum(addr) ==
    LET parts == split(str_ip(addr), ".")
    IN  sum([i \in 1..Len(parts) |-> int(parts[i]).v])

\* variant of set_ip_address that decodes the first line of the static reply too
set_ip_address_first_decoded(s0, cco_uid, ip_config) ==
    LET cmd == SetDeviceIP
        checksum == ip_address_sum(ip_config.address) + ip_address_sum(ip_config.netmask)
                      + ip_address_sum(ip_config.gateway) + 1
        data == IF ip_config.dynamic
                THEN <<"0", ".", "0", ".", "0", ".", "0", " ",
                       "0", ".", "0", ".", "0", ".", "0", " ",
                       "0", ".", "0", ".", "0", ".", "0", " ", "0", " ", "0">>
                ELSE join(<<" ">>, <<str_ip(ip_config.address), str_ip(ip_config.netmask),
                                     str_ip(ip_config.gateway)>>)
                       \o <<" ", "1", " ">> \o str(checksum)
        s1 == send(Serial(s0), cco_uid, cmd, Text(data))
        r1 == receive(s1)
        r2 == receive(r1.s)
        r3 == receive(r2.s)
        r4 == receive(r3.s)
        d1 == decode(r1.res, cmd, FALSE)
        d4 == decode(r4.res, cmd, FALSE)
    IN  close(IF ip_config.dynamic
              THEN IF r1.exc.kind # "ok" THEN Raise(r1.s, r1.exc)
                   ELSE IF d1.kind # "ok" THEN Raise(r1.s, d1)
                   ELSE IF d1.value[2] # <<"O", "K", " ", "0">>
                   THEN Raise(r1.s, HTTPException(500, "Error setting dynamic IP address"))
                   ELSE Return(r1.s, <<>>)
              ELSE IF r1.exc.kind # "ok" THEN Raise(r1.s, r1.exc)
                   ELSE IF d1.kind # "ok" THEN Raise(r1.s, d1)
                   ELSE IF r2.exc.kind # "ok" THEN Raise(r2.s, r2.exc)
                   ELSE IF r3.exc.kind # "ok" THEN Raise(r3.s, r3.exc)
                   ELSE IF r4.exc.kind # "ok" THEN Raise(r4.s, r4.exc)
                   ELSE IF d4.kind # "ok" THEN Raise(r4.s, d4)
                   ELSE IF d4.value[2] # <<"O", "K", " ", "1">>
                   THEN Raise(r4.s, HTTPException(500, "Error setting static IP address"))
                   ELSE Return(r4.s, <<>>))

set_ip_address(s0, cco_uid, ip_config) ==
    LET cmd == SetDeviceIP
        checksum == ip_address_sum(ip_config.address) + ip_address_sum(ip_config.netmask)
                      + ip_address_sum(ip_config.gateway) + 1
        data == IF ip_config.dynamic
                THEN <<"0", ".", "0", ".", "0", ".", "0", " ",
                       "0", ".", "0", ".", "0", ".", "0", " ",
                       "0", ".", "0", ".", "0", ".", "0", " ", "0", " ", "0">>
                ELSE join(<<" ">>, <<str_ip(ip_config.address), str_ip(ip_config.netmask),
                                     str_ip(ip_config.gateway)>>)
                       \o <<" ", "1", " ">> \o str(checksum)
        s1 == send(Serial(s0), cco_uid, cmd, Text(data))
        r1 == receive(s1)
        r2 == receive(r1.s)
        r3 == receive(r2.s)
        r4 == receive(r3.s)
        d1 == decode(r1.res, cmd, FALSE)
        d4 == decode(r4.res, cmd, FALSE)
    IN  close(IF ip_config.dynamic
              THEN IF r1.exc.kind # "ok" THEN Raise(r1.s, r1.exc)
                   ELSE IF d1.kind # "ok" THEN Raise(r1.s, d1)
                   ELSE IF d1.value[2] # <<"O", "K", " ", "0">>
                   THEN Raise(r1.s, HTTPException(500, "Error setting dynamic IP address"))
                   ELSE Return(r1.s, <<>>)
              ELSE IF r1.exc.kind # "ok" THEN Raise(r1.s, r1.exc)
                   ELSE IF r2.exc.kind # "ok" THEN Raise(r2.s, r2.exc)
                   ELSE IF r3.exc.kind # "ok" THEN Raise(r3.s, r3.exc)
                   ELSE IF r4.exc.kind # "ok" THEN Raise(r4.s, r4.exc)
                   ELSE IF d4.kind # "ok" THEN Raise(r4.s, d4)
                   ELSE IF d4.value[2] # <<"O", "K", " ", "1">>
                   THEN Raise(r4.s, HTTPException(500, "Error setting static IP address"))
                   ELSE Return(r4.s, <<>>))

hexdigits == <<"0", "1", "2", "3", "4", "5", "6", "7", "8", "9", "a", "b", "c", "d", "e", "f">>

\* the value of a hexadecimal digit of either case, 16 for any other character
hex_value(c) ==
    LET at == {i \in 1..16 : HexDigit[i] = c \/ hexdigits[i] = c} IN
    IF at = {} THEN 16 ELSE (CHOOSE i \in at : TRUE) - 1

\* the decimal text of n >= 0 in a message
RECURSIVE position(_)
position(n) ==
    IF n < 10 THEN Digit[n + 1] ELSE position(n \div 10) \o Digit[(n % 10) + 1]

\* bytes.fromhex(text) read from character i on: whitespace is skipped
\* between bytes, each byte is two adjacent hexadecimal digits of either
\* case; ok is FALSE where it raises ValueError, with the message in detail
RECURSIVE fromhex_at(_, _)
fromhex_at(text, i) ==
    LET bad(at) ==
            [ok |-> FALSE, kind |-> "ValueError", v |-> <<>>,
             detail |-> "non-hexadecimal number found in fromhex() arg at position "
                        \o position(at)]
    IN  IF i > Len(text) THEN [ok |-> TRUE, kind |-> "", v |-> <<>>, detail |-> ""]
        ELSE IF IsSpace(text[i]) THEN fromhex_at(text, i + 1)
        ELSE IF hex_value(text[i]) = 16 THEN bad(i - 1)
        ELSE IF i + 1 > Len(text) \/ hex_value(text[i + 1]) = 16 THEN bad(i)
        ELSE LET r == fromhex_at(text, i + 2) IN
             IF ~r.ok THEN r
             ELSE [r EXCEPT !.v = <<Byte(16 * hex_value(text[i]) + hex_value(text[i + 1]))>>
                                  \o @]

fromhex(text) == fromhex_at(text, 1)

\* there is no ":" separator between cmd and data
dim_single(s0, cco_uid, sta_uid, dimming_levels) ==
    LET cmd == DIMALL3
        data == concat(<<to_bytes(dimming_levels[1], 2), to_bytes(dimming_levels[2], 2),
                         to_bytes(dimming_levels[3], 2),
                         fromhex(sta_uid), to_bytes(4, 1)>>)
        temp == rstrip(__encode__(cco_uid, cmd, None))
        s1 == Serial(s0)
    IN  close(IF ~data.ok THEN Raise(s1, Exc(data.kind, data.detail))
              ELSE Return(write(s1, temp \o data.v \o <<LF>>), <<>>))

disable_dim_single(s0, cco_uid, sta_uid, dimming_levels) ==
    LET cmd == DIMALL3
        data == concat(<<to_bytes(dimming_levels[1], 2), to_bytes(dimming_levels[2], 2),
                         to_bytes(dimming_levels[3], 2),
                         fromhex(sta_uid), to_bytes(5, 1)>>)
        temp == rstrip(__encode__(cco_uid, cmd, None))
        s1 == Serial(s0)
    IN  close(IF ~data.ok THEN Raise(s1, Exc(data.kind, data.detail))
              ELSE Return(write(s1, temp \o data.v \o <<LF>>), <<>>))

\* group: Query(title="Group ID", min=1, max=8); the body never tests it
disable_group_dimming(s0, cco_uid, group) ==
    LET cmd == DIMALL3
        data == concat(<<to_bytes(0, 10), to_bytes(group, 2), to_bytes(7, 1)>>)
        s1 == Serial(s0)
    IN  close(IF ~data.ok THEN Raise(s1, Exc("OverflowError", data.detail))
              ELSE Return(send(s1, cco_uid, cmd, Raw(data.v)), <<>>))

\* group: Query(title="Group ID", min=1, max=8); the body never tests it
dim_group(s0, cco_uid, group, dimming_levels) ==
    LET cmd == DIMALL3
        data == concat(<<to_bytes(dimming_levels[1], 2), to_bytes(dimming_levels[2], 2),
                         to_bytes(dimming_levels[3], 2),
                         to_bytes(0, 4),
                         to_bytes(group, 2), to_bytes(6, 1)>>)
        s1 == Serial(s0)
    IN  close(IF ~data.ok THEN Raise(s1, Exc("OverflowError", data.detail))
              ELSE Return(send(s1, cco_uid, cmd, Raw(data.v)), <<>>))

\* variant of clear_whitelist that decodes the reply to WHCLR
clear_whitelist_decoded(s0, cco_uid) ==
    LET s1 == send(Serial(s0), cco_uid, WHCLR, None)
        r == receive(s1)
        d == decode(r.res, WHCLR, FALSE)
    IN  close(IF r.exc.kind # "ok" THEN Raise(r.s, r.exc)
              ELSE IF d.kind # "ok" THEN Raise(r.s, d)
              ELSE Return(r.s, <<>>))

clear_whitelist(s0, cco_uid) ==
    LET s1 == send(Serial(s0), cco_uid, WHCLR, None)
        r == receive(s1)
    IN  close(IF r.exc.kind # "ok" THEN Raise(r.s, r.exc) ELSE Return(r.s, <<>>))

\* the while True loop of get_whitelist, entered with the list built so far
RECURSIVE get_whitelist_loop(_, _)
get_whitelist_loop(s, sta_list) ==
    LET r == receive(s)
        d == decode(r.res, WHMULT, FALSE)
        fields == split_ws(d.value[2])
        index == int(fields[1])
        length == int(fields[2])
        total == int(fields[3])
        extended == sta_list \o SubSeq(fields, 4, Len(fields))
    IN  IF r.exc.kind # "ok" THEN Raise(r.s, r.exc)
        ELSE IF d.kind # "ok" THEN Raise(r.s, d)
        ELSE IF Len(fields) < 1 THEN Raise(r.s, Exc("IndexError", "list index out of range"))
        ELSE IF ~index.ok THEN Raise(r.s, Exc("ValueError", "invalid literal for int()"))
        ELSE IF Len(fields) < 2 THEN Raise(r.s, Exc("IndexError", "list index out of range"))
        ELSE IF ~length.ok THEN Raise(r.s, Exc("ValueError", "invalid literal for int()"))
        ELSE IF Len(fields) < 3 THEN Raise(r.s, Exc("IndexError", "list index out of range"))
        ELSE IF ~total.ok THEN Raise(r.s, Exc("ValueError", "invalid literal for int()"))
        ELSE IF index.v + length.v = total.v THEN Return(r.s, [whitelist |-> extended])
        ELSE get_whitelist_loop(r.s, extended)

get_whitelist(s0, cco_uid) ==
    LET cmd == <<"W", "H", "S", "G", "E", "T">>
        s1 == send(Serial(s0), cco_uid, cmd, None)
    IN  close(get_whitelist_loop(s1, <<>>))

\* the while True loop of set_whitelist, entered with the given index
RECURSIVE set_whitelist_loop(_, _, _, _)
set_whitelist_loop(s, cco_uid, sta_list, index) ==
    LET length == 4
        total == Len(sta_list)
        stop_flag == index + 4 > total
        fields == <<str(index), str(length), str(total)>>
                    \o (IF stop_flag
                        THEN SubSeq(sta_list, index + 1, total)
                        ELSE SubSeq(sta_list, index + 1, index + 4))
        data == join(<<" ">>, fields)
        s1 == send(s, cco_uid, WHMLIST, Text(data))
        r == receive(s1)
        d == decode(r.res, WHMLIST, FALSE)
    IN  IF r.exc.kind # "ok" THEN Raise(r.s, r.exc)
        ELSE IF d.kind # "ok" THEN Raise(r.s, d)
        ELSE IF ~startswith(data, d.value[2])
        THEN Raise(send(r.s, cco_uid, WHEND, None),
                   HTTPException(500, "Unknown failure in setting whitelist"))
        ELSE IF stop_flag
        THEN r.s
        ELSE set_whitelist_loop(r.s, cco_uid, sta_list, index + 4)

set_whitelist(s0, cco_uid, sta_list) ==
    LET c == clear_whitelist(s0, cco_uid)
        s1 == send(Serial(c), cco_uid, WHSTART, None)
        r == receive(s1)
        d == decode(r.res, WHSTART, FALSE)
        l == set_whitelist_loop(r.s, cco_uid, sta_list, 0)
    IN  IF c.exc.kind # "ok" THEN c
        ELSE close(IF r.exc.kind # "ok" THEN Raise(r.s, r.exc)
                   ELSE IF d.kind # "ok" THEN Raise(r.s, d)
                   ELSE IF l.exc.kind # "ok" THEN l
                   ELSE Return(send(l, cco_uid, WHEND, None), <<>>))

\* the int getters: send the command, read one reply, decode it and return
\* the number in its data
get_number(s0, cco_uid, cmd) ==
    LET s1 == send(Serial(s0), cco_uid, cmd, None)
        r == receive(s1)
        d == decode(r.res, cmd, FALSE)
        n == int(d.value[2])
    IN  close(IF r.exc.kind # "ok" THEN Raise(r.s, r.exc)
              ELSE IF d.kind # "ok" THEN Raise(r.s, d)
              ELSE IF ~n.ok
              THEN Raise(r.s, Exc("ValueError", "invalid literal for int()"))
              ELSE Return(r.s, n.v))

get_access_time(s0, cco_uid) ==
    LET s == get_number(s0, cco_uid, GetAccessTime) IN
    IF s.exc.kind = "ok" THEN Return(s, [access_time |-> s.exc.value]) ELSE s

get_frequency_band(s0, cco_uid) ==
    LET s == get_number(s0, cco_uid, GetCCOBand) IN
    IF s.exc.kind = "ok" THEN Return(s, [band |-> s.exc.value]) ELSE s

get_dimming_channel(s0, cco_uid) ==
    LET s == get_number(s0, cco_uid, GetCCOChannel) IN
    IF s.exc.kind = "ok" THEN Return(s, [channel_count |-> s.exc.value]) ELSE s

get_modbus_rtu_node_address(s0, cco_uid) ==
    LET s == get_number(s0, cco_uid, GetModbusAddr) IN
    IF s.exc.kind = "ok" THEN Return(s, [address |-> s.exc.value]) ELSE s

\* the IpConfig data model
IpConfig(dynamic, address, netmask, gateway) ==
    [dynamic |-> dynamic, address |-> address, netmask |-> netmask, gateway |-> gateway]

\* IPv4Address(text): four decimal octets of at most three digits, none above
\* 255 and none with a leading zero; ok is FALSE where it raises
\* AddressValueError
IPv4Address(text) ==
    LET octets == split(text, ".")
        good(o) == /\ Len(o) \in 1..3
                   /\ \A i \in 1..Len(o) : \E k \in 1..10 : Digit[k] = o[i]
                   /\ (Len(o) > 1 => o[1] # "0")
                   /\ digits_value(o) <= 255
    IN  IF Len(octets) = 4 /\ \A i \in 1..4 : good(octets[i])
        THEN [ok |-> TRUE, v |-> [i \in 1..4 |-> digits_value(octets[i])]]
        ELSE [ok |-> FALSE, v |-> <<>>]

get_ip_address(s0, cco_uid) ==
    LET cmd == GetDeviceIP
        s1 == send(Serial(s0), cco_uid, cmd, None)
        r == receive(s1)
        d == decode(r.res, cmd, FALSE)
        fields == split(d.value[2], " ")
        address == IPv4Address(fields[1])
        netmask == IPv4Address(fields[2])
        gateway == IPv4Address(fields[3])
        invalid == Exc("AddressValueError", "")
        short == Exc("IndexError", "list index out of range")
    IN  close(IF r.exc.kind # "ok" THEN Raise(r.s, r.exc)
              ELSE IF d.kind # "ok" THEN Raise(r.s, d)
              ELSE IF ~address.ok THEN Raise(r.s, invalid)
              ELSE IF Len(fields) < 2 THEN Raise(r.s, short)
              ELSE IF ~netmask.ok THEN Raise(r.s, invalid)
              ELSE IF Len(fields) < 3 THEN Raise(r.s, short)
              ELSE IF ~gateway.ok THEN Raise(r.s, invalid)
              ELSE Return(r.s, IpConfig(FALSE, address.v, netmask.v, gateway.v)))

\* Force the transmitter to power cycle: the command is written and no reply
\* is read
reboot(s0, cco_uid) ==
    LET cmd == REBOOTCCO IN
    close(Return(send(Serial(s0), cco_uid, cmd, None), <<>>))

\* int(bytes.fromhex(hi + lo)): the byte the two hex digits name, read as a
\* decimal literal
status_level(hi, lo) ==
    LET b == fromhex(<<hi, lo>>)
        digit == {k \in 0..9 : b.v = <<Byte(48 + k)>>}
    IN  IF ~b.ok THEN Exc("ValueError", b.detail)
        ELSE IF digit # {} THEN Ok(CHOOSE k \in digit : TRUE)
        ELSE Exc("ValueError", "invalid literal for int()")

\* the second reply of get_status: the adapter address, six characters of
\* firmware version, three dimming levels and the dimming mode; what is parsed
\* is dropped, the function ends without a return
get_status_2(s, sta_uid) ==
    LET r == receive(s)
        d == decode(r.res, STA, FALSE)
        res_data == d.value[2]
        index == Len(sta_uid) + 6
        level(i) == status_level(res_data[index + 2 * i], res_data[index + 2 * i - 1])
    IN  IF r.exc.kind # "ok" THEN Raise(r.s, r.exc)
        ELSE IF d.kind # "ok" THEN Raise(r.s, d)
        ELSE IF ~startswith(res_data, sta_uid)
        THEN Raise(r.s, HTTPException(500, "Inconsistent STA UID in response"))
        ELSE IF \E i \in 1..3 : Len(res_data) < index + 2 * i \/ level(i).kind # "ok"
        THEN LET i == CHOOSE j \in 1..3 :
                        /\ Len(res_data) < index + 2 * j \/ level(j).kind # "ok"
                        /\ \A k \in 1..(j - 1) :
                              Len(res_data) >= index + 2 * k /\ level(k).kind = "ok"
             IN  Raise(r.s, IF Len(res_data) < index + 2 * i
                            THEN Exc("IndexError", "string index out of range")
                            ELSE level(i))
        ELSE IF Len(res_data) < index + 7
        THEN Raise(r.s, Exc("IndexError", "string index out of range"))
        ELSE Return(r.s, None)

get_status(s0, cco_uid, sta_uid) ==
    LET cmd == STATUS
        data == sta_uid
        s1 == send(Serial(s0), cco_uid, cmd, Text(data))
        r == receive(s1)
        d == decode(r.res, cmd, FALSE)
    IN  close(IF r.exc.kind # "ok" THEN Raise(r.s, r.exc)
              ELSE IF d.kind # "ok" THEN Raise(r.s, d)
              ELSE IF d.value[2] # data
              THEN Raise(r.s, HTTPException(500, "Inconsistent STA UID in response"))
              ELSE get_status_2(r.s, sta_uid))

---------------------------------------------------------------------------
(* Inputs *)

UID == <<"0", "4", "6", "D", "D", "5", "B", "C">>
ABCDEF01 == <<"A", "B", "C", "D", "E", "F", "0", "1">>
ONLYONEFIELD == <<"O", "N", "L", "Y", "O", "N", "E", "F", "I", "E", "L", "D">>
STA_PREFIX == <<"0", "4", "6", "D", "D", "5", "B", "C", "1", "2", "3">>

\* the i-th adapter address (12 characters)
Sta(i) == STA_PREFIX \o <<Digit[(i % 10) + 1]>>

Addrs == {UID, ABCDEF01}
Cmds == {SetTxPower, WHSTART}
Datas == {<<>>, <<"1", "5">>, <<"O", "K", " ", "1">>, <<"a", COLON, "b">>}
Eols == {<<>>, <<LF>>, CRCRLF}
Markers == {HASH_MARK, AT_MARK, <<>>} \cup busy

\* lines with a byte that is not ASCII in the marker, the address, the command
NonAsciiLines ==
    { <<"xFF", "#">> \o UID \o <<COLON>> \o WHSTART \o <<COLON, "x">>,
      HASH_MARK \o <<"xFF", "xFE">> \o <<COLON>> \o WHSTART \o <<COLON, "x">> \o CRCRLF,
      HASH_MARK \o UID \o <<COLON, "xFF", "X", COLON, "x">>,
      HASH_MARK \o UID \o <<COLON>> \o WHSTART \o <<COLON, "xFF">> \o CRCRLF }

\* lines a read can return: every marker, with and without a data field
Lines ==
    {m \o a \o <<COLON>> \o c \o t :
        m \in Markers, a \in Addrs, c \in Cmds \cup {ONLYONEFIELD},
        t \in {<<>>} \cup {<<COLON>> \o d \o e : d \in Datas, e \in Eols}}
    \cup NonAsciiLines

ReplyEntries ==
    { ECHO,
      <<>>,
      WHBUSY \o CRCRLF,
      HASH_MARK \o ABCDEF01 \o <<COLON>> \o ONLYONEFIELD,
      AT_MARK \o UID \o <<COLON>> \o WHSTART \o <<COLON>> \o CRCRLF,
      HASH_MARK \o UID \o <<COLON>> \o GROUPS \o <<COLON>> \o Sta(1) \o CRCRLF }

RECURSIVE SeqsUpTo(_, _)
SeqsUpTo(S, n) ==
    IF n = 0 THEN {<<>>}
    ELSE LET shorter == SeqsUpTo(S, n - 1) IN
         shorter \cup {Append(q, e) : q \in shorter, e \in S}

Scripts == SeqsUpTo(ReplyEntries, MaxScript)

\* a well-formed reply of the transmitter UID
Reply(cmd, data) == HASH_MARK \o UID \o <<COLON>> \o cmd \o <<COLON>> \o data \o CRCRLF

\* the two replies of a transmitter that holds group g for the adapter sta
StoredGroup(sta, g) == <<Reply(GROUPS, sta), Reply(SET_DEVICE_GROUP, sta \o str(g))>>

GroupEntries ==
    { <<>>,
      WHBUSY \o CRCRLF,
      HASH_MARK \o ABCDEF01 \o <<COLON>> \o ONLYONEFIELD }
    \cup {StoredGroup(Sta(1), 3)[i] : i \in 1..2}
    \cup {StoredGroup(Sta(2), 8)[i] : i \in 1..2}

GroupScripts == SeqsUpTo(GroupEntries, MaxShortScript)
AllGroupsScripts == SeqsUpTo(GroupEntries, MaxLongScript)

\* reply scripts of a getter: no reply, a busy or malformed line, or a
\* well-formed reply to the command with one of the data texts
GetterScripts(cmd, texts) ==
    SeqsUpTo({ <<>>,
               WHBUSY \o CRCRLF,
               HASH_MARK \o ABCDEF01 \o <<COLON>> \o ONLYONEFIELD }
             \cup {Reply(cmd, x) : x \in texts}, MaxShortScript)

ShortScripts == SeqsUpTo(ReplyEntries, MaxShortScript)

ControlModes == [analog : BOOLEAN, button : BOOLEAN, modbus : BOOLEAN,
                 bacnet : BOOLEAN, debug : BOOLEAN]

\* the default of the handler, the configuration of test_set_ip_address, a
\* third static one, and a dynamic one
IpConfigs ==
    { IpConfig(FALSE, <<127, 0, 0, 100>>, <<255, 255, 255, 0>>, <<127, 0, 0, 1>>),
      IpConfig(FALSE, <<192, 0, 0, 128>>, <<255, 255, 255, 128>>, <<192, 168, 0, 1>>),
      IpConfig(FALSE, <<10, 20, 30, 40>>, <<255, 0, 0, 0>>, <<10, 0, 0, 254>>),
      IpConfig(TRUE, <<127, 0, 0, 100>>, <<255, 255, 255, 0>>, <<127, 0, 0, 1>>) }

IpScripts ==
    SeqsUpTo({ <<>>,
               WHBUSY \o CRCRLF,
               HASH_MARK \o ABCDEF01 \o <<COLON>> \o ONLYONEFIELD,
               Reply(SetDeviceIP, <<"O", "K", " ", "0">>),
               Reply(SetDeviceIP, <<"O", "K", " ", "1">>) }, MaxLongScript)

\* what a transmitter with k grouped adapters sends before it goes silent
StoredGroups ==
    << <<>>,
       StoredGroup(Sta(1), 3),
       StoredGroup(Sta(1), 3) \o StoredGroup(Sta(2), 8) >>
TxPowers == {0, 15, 24}
\* group ids inside and outside 1..8, a negative one and one of three bytes
Groups == {-1, 0, 1, 3, 8, 9, 65536}
\* dimming levels: two of the tests' range, one too big for two bytes and a
\* negative one
Levels == {<<550, 550, 0>>, <<0, 999, 300>>, <<0, 70000, 0>>, <<-1, 0, 0>>}
\* sta_uid: Path(min_length=12, max_length=12), twelve characters of any
\* kind: upper-case and lower-case hexadecimal, no hexadecimal at all, a
\* blank inside a byte, blanks between bytes
StaUids ==
    {Sta(1), Sta(2),
     <<"0", "4", "6", "d", "d", "5", "b", "c", "1", "2", "3", "1">>,
     [i \in 1..12 |-> "Z"],
     <<"0", "4", "6", "D", "D", "5", "B", "C", " ", "1", "2", "3">>,
     <<"0", "4", "6", "D", "D", "5", "B", "C", " ", " ", "1", "2">>}

StaLists == {[i \in 1..n |-> Sta(i)] : n \in 0..MaxStaList}

\* the replies each getter is run against: empty reads, a busy marker, a
\* malformed frame and well-formed replies with the texts given
get_control_mode_replies ==
    GetterScripts(GETTYPE, {control_mode_data(m) : m \in ControlModes}
                             \cup {<<"0", " ", "0", " ", "0", " ", "0", " ", "0">>,
                                   <<"1", " ", "1">>})
get_txpower_replies ==
    GetterScripts(GetTxPower, {str(p) : p \in TxPowers} \cup {<<"1", "5", "d", "B">>})
get_startup_control_replies ==
    GetterScripts(GetStartContral,
                  { <<"1", " ", "5", "0", " ", "1", "0">>,
                    <<"0", " ", "1", "0", "0", " ", "1", "0">>,
                    <<"1", " ", "5", "0">>,
                    <<"1", " ", "2", "5", "5", " ", "1", "0">> })
get_dim_broadcast_replies ==
    GetterScripts(GETDIMS, {<<"5", "5", "0", " ", "5", "5", "0", " ", "0">>,
                            <<"0", " ", "9", "9", "9", " ", "3", "0", "0">>,
                            <<"5", "5", "0", " ", "5", "5", "0">>,
                            <<"5", "5", "0", " ", "o", "n", " ", "0">>})
\* pages of a stored whitelist of two adapters and of one adapter
get_whitelist_replies ==
    GetterScripts(WHMULT, { <<"0", " ", "1", " ", "2", " ">> \o Sta(1),
                            <<"1", " ", "1", " ", "2", " ">> \o Sta(2),
                            <<"0", " ", "1", " ", "1", " ">> \o Sta(1) })
get_number_replies(cmd) == GetterScripts(cmd, {<<"1", "5">>, <<"1", "5", "d", "B">>})
get_ip_address_replies ==
    GetterScripts(GetDeviceIP,
                  { str_ip(<<192, 0, 0, 128>>) \o <<" ">> \o str_ip(<<255, 255, 255, 128>>)
                        \o <<" ">> \o str_ip(<<192, 168, 0, 1>>),
                    str_ip(<<192, 0, 0, 128>>) })
get_status_replies == GetterScripts(STATUS, {Sta(1), Sta(2)})
\* the replies the device gives to the request served on the other thread
other_replies == {<<Reply(GetTxPower, <<"1", "5">>)>>}
set_sta_group_replies == Scripts \cup GroupScripts
set_whitelist_replies ==
    Scripts \cup {<<ECHO, ECHO>> \o q :
                    q \in SeqsUpTo({ECHO, Reply(WHMLIST, <<"9">>)}, MaxShortScript)}

---------------------------------------------------------------------------
(* State machine *)

RebuildIdle ==
    /\ sess = "idle" /\ startPc = "none" /\ streamPc = "none"
    /\ pending = <<>> /\ serIn = <<>> /\ wsIn = <<>> /\ wsOut = 0
    /\ peerClosed = FALSE /\ aborted = FALSE /\ drained = FALSE
    /\ devLeft = MaxDevLines /\ peerLeft = MaxPeerMsgs

Idle ==
    [op |-> "none", args |-> <<>>, script |-> <<>>, log |-> <<>>, run |-> NewPort(<<>>),
     result |-> NotRun]

Init ==
    /\ op = "none" /\ args = <<>> /\ script = <<>> /\ log = <<>>
    /\ run = NewPort(<<>>)
    /\ result = NotRun
    /\ other = Idle
    /\ tx = <<>> /\ reads = 0 /\ opens = 0 /\ closes = 0 /\ peak = 0
    /\ RebuildIdle

\* the pure helpers, which are applied on their own
Helpers == {"__encode__", "decode", "__decode__", "roundtrip"}

\* a pure helper was applied: nothing touches the port
Applied(name, a, r) ==
    /\ other = Idle
    /\ op' = name /\ args' = a /\ result' = r
    /\ UNCHANGED <<script, log, run, other, portVars, rebuildVars>>

IsPrefix(p, q) == Len(p) <= Len(q) /\ SubSeq(q, 1, Len(p)) = p

\* the port call ev of a running handler reaches the serial port
Port(ev) ==
    /\ tx' = IF ev.e = "write" THEN Append(tx, ev.f) ELSE tx
    /\ reads' = IF ev.e = "readline" THEN reads + 1 ELSE reads
    /\ opens' = IF ev.e = "open" THEN opens + 1 ELSE opens
    /\ closes' = IF ev.e = "close" THEN closes + 1 ELSE closes
    /\ peak' = IF ev.e = "open" /\ opens + 1 - closes > peak
               THEN opens + 1 - closes ELSE peak

\* the request served first, as a record of the same shape as other
Me ==
    [op |-> op, args |-> args, script |-> script, log |-> log, run |-> run,
     result |-> result]

\* the replies the device can give to the next readline of a request that has
\* read script: any continuation of script within S
Replies(S, sc) == {q \in S : Len(q) = Len(sc) + 1 /\ IsPrefix(sc, q)}

\* the request c after the next port call of its handler, s being the handler
\* run against the replies sc
Advance(c, sc, s) ==
    [c EXCEPT !.script = sc,
              !.run = s,
              !.log = SubSeq(s.log, 1, Len(c.log) + 1),
              !.result = IF Len(c.log) + 1 = Len(s.log) THEN s.exc ELSE Running]

\* The next steps of the request name(a), c being what it has done so far.
\* The router calls the handler, which runs up to its first port call, and
\* the handler then makes its port calls one at a time: H(sc) is the handler
\* run against the replies sc, its log the port calls it makes. A readline
\* takes the device's next reply (past S the device is silent); the handler
\* returns or raises with its last port call. The request keeps, as run,
\* the handler run against the replies it has read: its next port call is
\* the next call of that run.
Steps(c, name, a, S, H(_)) ==
    IF c.op = "none"
    THEN LET c0 == [op |-> name, args |-> a, script |-> <<>>, log |-> <<>>,
                    run |-> H(<<>>), result |-> Running]
         IN  IF c0.run.log = <<>>
             THEN {[c0 EXCEPT !.result = c0.run.exc]}
             ELSE {Advance(c0, <<>>, c0.run)}
    ELSE IF c.op # name \/ c.args # a \/ c.result # Running
    THEN {}
    ELSE LET s0 == c.run
             ev == s0.log[Len(c.log) + 1]
             ext == Replies(S, c.script)
         IN  IF ev.e # "readline" \/ ext = {}
             THEN {Advance(c, c.script, s0)}
             ELSE {Advance(c, sc, H(sc)) : sc \in ext}

\* the port call that took the request c to n, if there was one
PortStep(c, n) ==
    IF Len(n.log) > Len(c.log) THEN Port(n.log[Len(n.log)]) ELSE UNCHANGED portVars

\* one step of the request name(a), served first
Progress(name, a, S, H(_)) ==
    \E n \in Steps(Me, name, a, S, H) :
        /\ op' = n.op /\ args' = n.args /\ script' = n.script /\ log' = n.log
        /\ run' = n.run
        /\ result' = n.result
        /\ PortStep(Me, n)
        /\ UNCHANGED <<other, rebuildVars>>

\* one step of the request name(a), served on another worker thread while
\* or after the first request or the discovery session runs
Concurrent(name, a, S, H(_)) ==
    \E n \in Steps(other, name, a, S, H) :
        /\ op \notin Helpers
        /\ other' = n
        /\ PortStep(other, n)
        /\ UNCHANGED <<callVars, log, run, rebuildVars>>

Call_encode ==
    /\ op = "none"
    /\ \E a \in Addrs, c \in Cmds, d \in {None} \cup {Text(x) : x \in Datas} :
           Applied("__encode__", [addr |-> a, cmd |-> c, data |-> d],
                   Ok(__encode__(a, c, d)))

Call_decode ==
    /\ op = "none"
    /\ \E res \in Lines, c \in Cmds :
           Applied("decode", [res |-> res, cmd |-> c], decode(res, c, FALSE))

Call___decode__ ==
    /\ op = "none"
    /\ \E res \in Lines, c \in Cmds :
           Applied("__decode__", [res |-> res, cmd |-> c], call__decode__(<<res, c>>))

\* decode, and __decode__, applied to the bytes __encode__ produced
RoundTrip ==
    /\ op = "none"
    /\ \E a \in Addrs, c \in Cmds, d \in Datas, f \in {"decode", "__decode__"} :
           Applied("roundtrip", [addr |-> a, cmd |-> c, data |-> d, by |-> f],
                   IF f = "decode"
                   THEN decode(__encode__(a, c, Text(d)), c, FALSE)
                   ELSE call__decode__(<<__encode__(a, c, Text(d)), c>>))

Call_list_cco ==
    /\ op \in {"none", "list_cco"}
    /\ Progress("list_cco", <<>>,
                Scripts,
                LAMBDA sc : list_cco(NewPort(sc)))

Call_get_control_mode ==
    /\ op \in {"none", "get_control_mode"}
    /\ Progress("get_control_mode", [cco_uid |-> UID],
                get_control_mode_replies,
                LAMBDA sc : get_control_mode(NewPort(sc), UID))

Call_set_control_mode ==
    /\ op \in {"none", "set_control_mode"}
    /\ \E m \in ControlModes :
           Progress("set_control_mode", [cco_uid |-> UID, control_mode |-> m],
                    ShortScripts,
                    LAMBDA sc : set_control_mode(NewPort(sc), UID, m))

Call_reset_control_mode ==
    /\ op \in {"none", "reset_control_mode"}
    /\ Progress("reset_control_mode", [cco_uid |-> UID],
                Scripts,
                LAMBDA sc : reset_control_mode(NewPort(sc), UID))

Call_set_txpower ==
    /\ op \in {"none", "set_txpower"}
    /\ \E p \in TxPowers :
           Progress("set_txpower", [cco_uid |-> UID, txpower |-> p],
                    Scripts,
                    LAMBDA sc : set_txpower(NewPort(sc), UID, p))

Call_get_txpower ==
    /\ op \in {"none", "get_txpower"}
    /\ Progress("get_txpower", [cco_uid |-> UID],
                get_txpower_replies,
                LAMBDA sc : get_txpower(NewPort(sc), UID))

Call_set_access_time ==
    /\ op \in {"none", "set_access_time"}
    /\ \E v \in {1, 10, 30} :
           Progress("set_access_time", [cco_uid |-> UID, access_time |-> v],
                    ShortScripts,
                    LAMBDA sc : set_access_time(NewPort(sc), UID, v))

Call_set_frequency_band ==
    /\ op \in {"none", "set_frequency_band"}
    /\ \E v \in {0, 1, 3} :
           Progress("set_frequency_band", [cco_uid |-> UID, band |-> v],
                    ShortScripts,
                    LAMBDA sc : set_frequency_band(NewPort(sc), UID, v))

Call_set_dimming_channel ==
    /\ op \in {"none", "set_dimming_channel"}
    /\ \E v \in {1, 2} :
           Progress("set_dimming_channel", [cco_uid |-> UID, channel_count |-> v],
                    ShortScripts,
                    LAMBDA sc : set_dimming_channel(NewPort(sc), UID, v))

Call_set_modbus_rtu_node_address ==
    /\ op \in {"none", "set_modbus_rtu_node_address"}
    /\ \E v \in {1, 42, 255} :
           Progress("set_modbus_rtu_node_address", [cco_uid |-> UID, address |-> v],
                    ShortScripts,
                    LAMBDA sc : set_modbus_rtu_node_address(NewPort(sc), UID, v))

Call_get_startup_control ==
    /\ op \in {"none", "get_startup_control"}
    /\ Progress("get_startup_control", [cco_uid |-> UID],
                get_startup_control_replies,
                LAMBDA sc : get_startup_control(NewPort(sc), UID))

Call_set_startup_control ==
    /\ op \in {"none", "set_startup_control"}
    /\ \E e \in BOOLEAN, dd \in {0, 50, 100} :
           LET startup_control == [is_enabled |-> e, default_dimming |-> dd] IN
           Progress("set_startup_control",
                    [cco_uid |-> UID, startup_control |-> startup_control],
                    ShortScripts,
                    LAMBDA sc : set_startup_control(NewPort(sc), UID, startup_control))

Call_set_sta_group ==
    /\ op \in {"none", "set_sta_group"}
    /\ \E g \in Groups :
           Progress("set_sta_group", [cco_uid |-> UID, sta_uid |-> Sta(1), group |-> g],
                    set_sta_group_replies,
                    LAMBDA sc : set_sta_group(NewPort(sc), UID, Sta(1), g))

Call_get_dim_broadcast ==
    /\ op \in {"none", "get_dim_broadcast"}
    /\ Progress("get_dim_broadcast", [cco_uid |-> UID],
                get_dim_broadcast_replies,
                LAMBDA sc : get_dim_broadcast(NewPort(sc), UID))

Call_dim_broadcast ==
    /\ op \in {"none", "dim_broadcast"}
    /\ \E lv \in Levels :
           Progress("dim_broadcast", [cco_uid |-> UID, dimming_levels |-> lv],
                    ShortScripts,
                    LAMBDA sc : dim_broadcast(NewPort(sc), UID, lv))

Call_get_sta_group ==
    /\ op \in {"none", "get_sta_group"}
    /\ Progress("get_sta_group", [cco_uid |-> UID, sta_uid |-> Sta(1)],
                GroupScripts,
                LAMBDA sc : get_sta_group(NewPort(sc), UID, Sta(1)))

Call_get_all_sta_groups ==
    /\ op \in {"none", "get_all_sta_groups"}
    /\ Progress("get_all_sta_groups", [cco_uid |-> UID],
                AllGroupsScripts,
                LAMBDA sc : get_all_sta_groups(NewPort(sc), UID))

Call_set_ip_address ==
    /\ op \in {"none", "set_ip_address"}
    /\ \E c \in IpConfigs :
           Progress("set_ip_address", [cco_uid |-> UID, ip_config |-> c],
                    IpScripts,
                    LAMBDA sc : set_ip_address(NewPort(sc), UID, c))

Call_dim_single ==
    /\ op \in {"none", "dim_single"}
    /\ \E sta \in StaUids, lv \in Levels :
           Progress("dim_single", [cco_uid |-> UID, sta_uid |-> sta, dimming_levels |-> lv],
                    ShortScripts,
                    LAMBDA sc : dim_single(NewPort(sc), UID, sta, lv))

\* dimming defaults to Dimming(dimming_levels=[0, 0, 0])
Call_disable_dim_single ==
    /\ op \in {"none", "disable_dim_single"}
    /\ \E sta \in StaUids, lv \in Levels \cup {<<0, 0, 0>>} :
           Progress("disable_dim_single", [cco_uid |-> UID, sta_uid |-> sta, dimming_levels |-> lv],
                    ShortScripts,
                    LAMBDA sc : disable_dim_single(NewPort(sc), UID, sta, lv))

Call_disable_group_dimming ==
    /\ op \in {"none", "disable_group_dimming"}
    /\ \E g \in Groups :
           Progress("disable_group_dimming", [cco_uid |-> UID, group |-> g],
                    ShortScripts,
                    LAMBDA sc : disable_group_dimming(NewPort(sc), UID, g))

Call_dim_group ==
    /\ op \in {"none", "dim_group"}
    /\ \E g \in Groups, lv \in Levels :
           Progress("dim_group", [cco_uid |-> UID, group |-> g, dimming_levels |-> lv],
                    Scripts,
                    LAMBDA sc : dim_group(NewPort(sc), UID, g, lv))

Call_clear_whitelist ==
    /\ op \in {"none", "clear_whitelist"}
    /\ Progress("clear_whitelist", [cco_uid |-> UID],
                Scripts,
                LAMBDA sc : clear_whitelist(NewPort(sc), UID))

\* pages of a stored whitelist of two adapters and of one adapter
Call_get_whitelist ==
    /\ op \in {"none", "get_whitelist"}
    /\ Progress("get_whitelist", [cco_uid |-> UID],
                get_whitelist_replies,
                LAMBDA sc : get_whitelist(NewPort(sc), UID))

Call_set_whitelist ==
    /\ op \in {"none", "set_whitelist"}
    /\ \E l \in StaLists :
           Progress("set_whitelist", [cco_uid |-> UID, sta_list |-> l],
                    set_whitelist_replies,
                    LAMBDA sc : set_whitelist(NewPort(sc), UID, l))

Call_get_access_time ==
    /\ op \in {"none", "get_access_time"}
    /\ Progress("get_access_time", [cco_uid |-> UID],
                get_number_replies(GetAccessTime),
                LAMBDA sc : get_access_time(NewPort(sc), UID))

Call_get_frequency_band ==
    /\ op \in {"none", "get_frequency_band"}
    /\ Progress("get_frequency_band", [cco_uid |-> UID],
                get_number_replies(GetCCOBand),
                LAMBDA sc : get_frequency_band(NewPort(sc), UID))

Call_get_dimming_channel ==
    /\ op \in {"none", "get_dimming_channel"}
    /\ Progress("get_dimming_channel", [cco_uid |-> UID],
                get_number_replies(GetCCOChannel),
                LAMBDA sc : get_dimming_channel(NewPort(sc), UID))

Call_get_modbus_rtu_node_address ==
    /\ op \in {"none", "get_modbus_rtu_node_address"}
    /\ Progress("get_modbus_rtu_node_address", [cco_uid |-> UID],
                get_number_replies(GetModbusAddr),
                LAMBDA sc : get_modbus_rtu_node_address(NewPort(sc), UID))

Call_get_ip_address ==
    /\ op \in {"none", "get_ip_address"}
    /\ Progress("get_ip_address", [cco_uid |-> UID],
                get_ip_address_replies,
                LAMBDA sc : get_ip_address(NewPort(sc), UID))

Call_reboot ==
    /\ op \in {"none", "reboot"}
    /\ Progress("reboot", [cco_uid |-> UID],
                {<<>>},
                LAMBDA sc : reboot(NewPort(sc), UID))

Call_get_status ==
    /\ op \in {"none", "get_status"}
    /\ \E sta \in {Sta(1)} :
           Progress("get_status", [cco_uid |-> UID, sta_uid |-> sta],
                    get_status_replies,
                    LAMBDA sc : get_status(NewPort(sc), UID, sta))

\* a second request, served while or after the first: a get_txpower
Other_get_txpower ==
    /\ other.op \in {"none", "get_txpower"}
    /\ Concurrent("get_txpower", [cco_uid |-> UID],
               other_replies,
               LAMBDA sc : get_txpower(NewPort(sc), UID))

---------------------------------------------------------------------------
(* rebuild: the network-discovery websocket handler *)

DevLine == HASH_MARK \o UID \o <<COLON>> \o WHSTART \o <<COLON>> \o Sta(1) \o CRCRLF
PeerTexts == {"STOP", "PING"}

\* variant of send_frame that gives up control after the frame's address part
send_frame_partial(addr, cmd) ==
    LET part == SubSeq(__encode__(addr, cmd, None), 1, Len(AT_MARK) + Len(addr)) IN
    tx' = Append(tx, part) /\ log' = Append(log, PortCall("write", part))

\* lora.write(__encode__(addr, cmd, data)) on the session's port
send_frame(addr, cmd) ==
    /\ tx' = Append(tx, __encode__(addr, cmd, None))
    /\ log' = Append(log, PortCall("write", __encode__(addr, cmd, None)))

\* rebuild is called: lora = Serial(...)
Connect ==
    /\ op = "none"
    /\ op' = "rebuild" /\ args' = [cco_uid |-> UID] /\ result' = Running
    /\ log' = Append(log, PortCall("open", <<>>))
    /\ Port(PortCall("open", <<>>))
    /\ sess' = "accepting"
    /\ UNCHANGED <<script, run, other, startPc, streamPc, pending, serIn, wsIn, wsOut,
                   peerClosed, aborted, drained, devLeft, peerLeft>>

\* await websocket.accept() returns; the task group creates the start() and
\* streaming() tasks, in this order
Accept ==
    /\ sess = "accepting"
    /\ sess' = "taskgroup" /\ startPc' = "created" /\ streamPc' = "created"
    /\ UNCHANGED <<callVars, log, run, other, portVars, pending, serIn, wsIn, wsOut,
                   peerClosed, aborted, drained, devLeft, peerLeft>>

\* await websocket.accept() raises: the handler ends there, with no task
\* created and lora left as it is
AcceptRaises ==
    /\ sess = "accepting"
    /\ sess' = "refused"
    /\ result' = Exc("RuntimeError", "")
    /\ UNCHANGED <<op, args, script, log, run, other, portVars, startPc, streamPc, pending,
                   serIn, wsIn, wsOut, peerClosed, aborted, drained, devLeft, peerLeft>>

\* start(): send REBOOTCCO, then await asyncio.sleep(10)
StartReboot ==
    /\ sess = "taskgroup" /\ startPc = "created"
    /\ send_frame(UID, REBOOTCCO)
    /\ startPc' = "sleeping"
    /\ UNCHANGED <<callVars, run, other, reads, opens, closes, peak, sess, streamPc, pending,
                   serIn, wsIn, wsOut, peerClosed, aborted, drained, devLeft, peerLeft>>

\* variant of StartResearch whose second command is REBOOTCCO again
StartResearch_reboot ==
    /\ sess = "taskgroup" /\ startPc = "sleeping"
    /\ send_frame(UID, REBOOTCCO)
    /\ startPc' = "done"
    /\ UNCHANGED <<callVars, run, other, reads, opens, closes, peak, sess, streamPc, pending,
                   serIn, wsIn, wsOut, peerClosed, aborted, drained, devLeft, peerLeft>>

\* variant of StartResearch that a WHITESTOP written meanwhile holds back
StartResearch_unless_stopped ==
    /\ sess = "taskgroup" /\ startPc = "sleeping"
    /\ \A i \in 1..Len(tx) : tx[i] # __encode__(UID, WHITESTOP, None)
    /\ send_frame(UID, SETTINGSTART)
    /\ startPc' = "done"
    /\ UNCHANGED <<callVars, run, other, reads, opens, closes, peak, sess, streamPc, pending,
                   serIn, wsIn, wsOut, peerClosed, aborted, drained, devLeft, peerLeft>>

\* start(): the sleep is over; send SETTINGSTART and finish
StartResearch ==
    /\ sess = "taskgroup" /\ startPc = "sleeping"
    /\ send_frame(UID, SETTINGSTART)
    /\ startPc' = "done"
    /\ UNCHANGED <<callVars, run, other, reads, opens, closes, peak, sess, streamPc, pending,
                   serIn, wsIn, wsOut, peerClosed, aborted, drained, devLeft, peerLeft>>

\* streaming(): res = lora.readlines(); the task created first has run before
StreamReadlines ==
    /\ sess = "taskgroup" /\ streamPc \in {"created", "loop"}
    /\ startPc # "created"
    /\ pending' = serIn /\ serIn' = <<>>
    /\ streamPc' = IF serIn # <<>> THEN "send_text" ELSE "poll"
    /\ UNCHANGED <<callVars, log, run, other, portVars, sess, startPc, wsIn, wsOut,
                   peerClosed, aborted, drained, devLeft, peerLeft>>

\* streaming(): await websocket.send_text(str(res)); on a closed connection
\* the send either goes unnoticed or raises
StreamSendText ==
    /\ sess = "taskgroup" /\ streamPc = "send_text"
    /\ \/ /\ wsOut' = wsOut + 1 /\ streamPc' = "poll"
       \/ /\ peerClosed /\ wsOut' = wsOut /\ streamPc' = "failed"
    /\ pending' = <<>>
    /\ UNCHANGED <<callVars, log, run, other, portVars, sess, startPc, serIn, wsIn,
                   peerClosed, aborted, drained, devLeft, peerLeft>>

\* variant of StreamPoll that answers every peer text with WHITESTOP
StreamPoll_anytext ==
    /\ sess = "taskgroup" /\ streamPc = "poll"
    /\ IF wsIn = <<>>
       THEN /\ streamPc' = "loop"
            /\ UNCHANGED <<wsIn, tx, log>>
       ELSE /\ wsIn' = Tail(wsIn)
            /\ IF Head(wsIn) = "DISCONNECT"
               THEN streamPc' = "failed" /\ UNCHANGED <<tx, log>>
               ELSE streamPc' = "loop" /\ send_frame(UID, WHITESTOP)
    /\ UNCHANGED <<callVars, run, other, reads, opens, closes, peak, sess, startPc, pending,
                   serIn, wsOut, peerClosed, aborted, drained, devLeft, peerLeft>>

\* streaming(): await asyncio.wait_for(websocket.receive_text(), timeout=0.1)
StreamPoll ==
    /\ sess = "taskgroup" /\ streamPc = "poll"
    /\ IF wsIn = <<>>
       THEN \* TimeoutError: pass
            /\ streamPc' = "loop"
            /\ UNCHANGED <<wsIn, tx, log>>
       ELSE /\ wsIn' = Tail(wsIn)
            /\ IF Head(wsIn) = "DISCONNECT"
               THEN \* receive_text raises WebSocketDisconnect
                    streamPc' = "failed" /\ UNCHANGED <<tx, log>>
               ELSE /\ streamPc' = "loop"
                    /\ IF Head(wsIn) = "STOP"
                       THEN send_frame(UID, WHITESTOP)
                       ELSE UNCHANGED <<tx, log>>
    /\ UNCHANGED <<callVars, run, other, reads, opens, closes, peak, sess, startPc, pending,
                   serIn, wsOut, peerClosed, aborted, drained, devLeft, peerLeft>>

\* variant of TgAbort that leaves a sleeping start() alone
TgAbort_nocancel ==
    /\ sess = "taskgroup" /\ streamPc = "failed" /\ ~aborted
    /\ aborted' = TRUE
    /\ UNCHANGED <<callVars, log, run, other, portVars, sess, startPc, streamPc, pending,
                   serIn, wsIn, wsOut, peerClosed, drained, devLeft, peerLeft>>

\* TaskGroup: a task failed, so the tasks still running are cancelled; a
\* start() cancelled in its sleep gets CancelledError there
TgAbort ==
    /\ sess = "taskgroup" /\ streamPc = "failed" /\ ~aborted
    /\ aborted' = TRUE
    /\ startPc' = IF startPc = "sleeping" THEN "cancelled" ELSE startPc
    /\ UNCHANGED <<callVars, log, run, other, portVars, sess, streamPc, pending, serIn, wsIn,
                   wsOut, peerClosed, drained, devLeft, peerLeft>>

\* async with asyncio.TaskGroup() ends once both tasks are done: it raises
\* the group of their exceptions, or falls through to the lines after it
\* (await asyncio.sleep(3); res = lora.readlines(); send_text if res)
TgExit ==
    /\ sess = "taskgroup"
    /\ startPc \in {"done", "cancelled"}
    /\ streamPc \in {"done", "failed"}
    /\ streamPc = "failed" => aborted
    /\ sess' = "closed"
    /\ IF streamPc = "failed"
       THEN /\ result' = Exc("ExceptionGroup", "WebSocketDisconnect")
            /\ UNCHANGED <<drained, serIn, wsOut>>
       ELSE /\ result' = Ok(<<>>)
            /\ drained' = TRUE
            /\ serIn' = <<>>
            /\ wsOut' = IF serIn # <<>> THEN wsOut + 1 ELSE wsOut
    /\ UNCHANGED <<op, args, script, log, run, other, portVars, startPc, streamPc, pending,
                   wsIn, peerClosed, aborted, devLeft, peerLeft>>

\* the peer sends a text
PeerSend ==
    /\ sess = "taskgroup" /\ ~peerClosed /\ peerLeft > 0
    /\ \E m \in PeerTexts : wsIn' = Append(wsIn, m)
    /\ peerLeft' = peerLeft - 1
    /\ UNCHANGED <<callVars, log, run, other, portVars, sess, startPc, streamPc, pending,
                   serIn, wsOut, peerClosed, aborted, drained, devLeft>>

\* the peer closes the connection
PeerDisconnect ==
    /\ sess = "taskgroup" /\ ~peerClosed
    /\ wsIn' = Append(wsIn, "DISCONNECT")
    /\ peerClosed' = TRUE
    /\ UNCHANGED <<callVars, log, run, other, portVars, sess, startPc, streamPc, pending,
                   serIn, wsOut, aborted, drained, devLeft, peerLeft>>

\* the transmitter emits a line
DeviceLine ==
    /\ sess \in {"accepting", "taskgroup"} /\ devLeft > 0
    /\ serIn' = Append(serIn, DevLine)
    /\ devLeft' = devLeft - 1
    /\ UNCHANGED <<callVars, log, run, other, portVars, sess, startPc, streamPc, pending,
                   wsIn, wsOut, peerClosed, aborted, drained, peerLeft>>

Next ==
    \/ Call_encode
    \/ Call_decode
    \/ Call___decode__
    \/ RoundTrip
    \/ Call_list_cco
    \/ Call_get_control_mode
    \/ Call_set_control_mode
    \/ Call_reset_control_mode
    \/ Call_set_txpower
    \/ Call_get_txpower
    \/ Call_set_access_time
    \/ Call_set_frequency_band
    \/ Call_set_dimming_channel
    \/ Call_set_modbus_rtu_node_address
    \/ Call_get_startup_control
    \/ Call_set_startup_control
    \/ Call_set_sta_group
    \/ Call_get_dim_broadcast
    \/ Call_dim_broadcast
    \/ Call_get_sta_group
    \/ Call_get_all_sta_groups
    \/ Call_set_ip_address
    \/ Call_dim_single
    \/ Call_disable_dim_single
    \/ Call_disable_group_dimming
    \/ Call_dim_group
    \/ Call_clear_whitelist
    \/ Call_get_whitelist
    \/ Call_set_whitelist
    \/ Call_get_access_time
    \/ Call_get_frequency_band
    \/ Call_get_dimming_channel
    \/ Call_get_modbus_rtu_node_address
    \/ Call_get_ip_address
    \/ Call_reboot
    \/ Call_get_status
    \/ Other_get_txpower
    \/ Connect
    \/ Accept
    \/ AcceptRaises
    \/ StartReboot
    \/ StartResearch
    \/ StreamReadlines
    \/ StreamSendText
    \/ StreamPoll
    \/ TgAbort
    \/ TgExit
    \/ PeerSend
    \/ PeerDisconnect
    \/ DeviceLine

Spec == Init /\ [][Next]_vars

---------------------------------------------------------------------------
(* Vocabulary of the properties *)

\* the call served first has returned or raised
Done == result # Running
Returned(name) == op = name /\ Done

\* what the call served first, or the discovery session, did to the port:
\* the frames it wrote, the lines it read, the ports it opened and closed and
\* the most ports it held at once
IsWrite(ev) == ev.e = "write"
MyTx == [i \in 1..Len(SelectSeq(log, IsWrite)) |-> SelectSeq(log, IsWrite)[i].f]
Calls(l, e) == Cardinality({i \in 1..Len(l) : l[i].e = e})
MyReads == Calls(log, "readline")
MyOpens == Calls(log, "open")
MyCloses == Calls(log, "close")
Held(l) == Calls(l, "open") - Calls(l, "close")
MyPeak ==
    IF log = <<>> THEN 0
    ELSE CHOOSE h \in {Held(SubSeq(log, 1, i)) : i \in 1..Len(log)} :
             \A i \in 1..Len(log) : Held(SubSeq(log, 1, i)) <= h

Frame(cmd) == __encode__(UID, cmd, None)
Count(seq, x) == Cardinality({i \in 1..Len(seq) : seq[i] = x})
Min(a, b) == IF a < b THEN a ELSE b
StartsBusy(line) == \E b \in {WHUSEING, WHBUSY, TOPOBUSY, STAGROUPBUSY} : startswith(line, b)

\* the WHMLIST frames written, in order
IsPage(f) == startswith(f, AT_MARK \o UID \o <<COLON>> \o WHMLIST)
PagesWritten == SelectSeq(MyTx, IsPage)

\* page i (from 0) of the list l as the whitelist-write contract states it
ContractPage(l, i) ==
    LET n == Len(l)
        index == 4 * i
        length == Min(4, n - index)
    IN  __encode__(UID, WHMLIST,
                   Text(join(<<" ">>, <<str(index), str(length), str(n)>>
                                        \o SubSeq(l, index + 1, index + length))))

\* the first reply of the script, as readline() returns it after tx[1]
FirstReply == IF script = <<>> THEN <<>>
              ELSE IF Head(script) = ECHO THEN echo(MyTx[1]) ELSE Head(script)

\* the device answered the reads of the call, every one of them, with the
\* lines of replies, in order
Answered(replies) ==
    /\ MyReads > 0 /\ Len(script) = MyReads
    /\ IsPrefix(script, replies)

\* the device answered every read of the call with the echo of the last frame
EchoesAlways ==
    /\ MyReads > 0 /\ Len(script) = MyReads
    /\ \A i \in 1..Len(script) : script[i] = ECHO

---------------------------------------------------------------------------
(* C1: round trip of the frame codec *)

\* C1 as stated: decoding the bytes __encode__ produced, with the same
\* expected command, recovers the address and the data text.
C1_RoundTripRecovers ==
    op = "roundtrip" =>
        /\ result.kind = "ok"
        /\ result.value[1] = args.addr
        /\ result.value[2] = args.data

\* C1 amended: decoding the bytes __encode__ produced never recovers the
\* fields. The frame carries the outbound marker @@, so __decode__ rejects it
\* for its marker (for its field count when the data text holds a ':'), and
\* decode fails as well.
C1_EncodedFrameIsRejected ==
    op = "roundtrip" =>
        /\ result.kind # "ok"
        /\ args.by = "__decode__" =>
              result = IF \E i \in 1..Len(args.data) : args.data[i] = COLON
                       THEN LightingException("Expect 3 fields separated by :")
                       ELSE LightingException("Expect response to start with ##")

C1_Witness ==
    /\ op = "roundtrip" /\ args.by = "__decode__"
    /\ args.addr = UID /\ args.cmd = SetTxPower /\ args.data = <<"1", "5">>
    /\ result.detail = "Expect response to start with ##"

---------------------------------------------------------------------------
(* C2: pages of a whitelist write *)

\* C2 as stated: against a device that echoes every frame, set_whitelist of
\* a list of length N writes exactly ceil(N/4) WHMLIST pages, page i with the
\* header 4*i, min(4, N - 4*i), N and its addresses, and then exactly one
\* WHEND, which is the last frame written.
C2_PagesFollowContract ==
    (Returned("set_whitelist") /\ EchoesAlways) =>
        LET n == Len(args.sta_list)
            k == (n + 3) \div 4
        IN  /\ Len(PagesWritten) = k
            /\ \A i \in 0..(k - 1) : PagesWritten[i + 1] = ContractPage(args.sta_list, i)
            /\ Count(MyTx, Frame(WHEND)) = 1
            /\ MyTx[Len(MyTx)] = Frame(WHEND)

---------------------------------------------------------------------------
(* C3: a whitelist write closes the paging sequence on every exit *)

\* C3 as stated: once set_whitelist has written WHSTART, it has written WHEND
\* exactly once, as its last frame, by the time it returns or fails.
C3_WhendOnEveryExit ==
    (Returned("set_whitelist") /\ Count(MyTx, Frame(WHSTART)) > 0) =>
        /\ Count(MyTx, Frame(WHEND)) = 1
        /\ MyTx[Len(MyTx)] = Frame(WHEND)

---------------------------------------------------------------------------
(* C4: discovery session after the peer disconnects *)

\* C4 as stated, for a session whose start task has reached its settle
\* interval: once the peer has disconnected, nothing more is written to the
\* transport (so SETTINGSTART is not).
C4_NoWriteAfterDisconnect ==
    [][(peerClosed /\ startPc # "created") => MyTx' = MyTx]_vars

\* C4 amended: once the task group has cancelled its tasks after the
\* streaming task failed on the disconnect, both tasks have stopped, nothing
\* more is written to the transport, and a start task cancelled in its settle
\* interval never writes SETTINGSTART.
C4_NoWriteAfterCancel ==
    [][ /\ aborted => MyTx' = MyTx
        /\ aborted' => (startPc' \in {"done", "cancelled"} /\ streamPc' = "failed")
        /\ startPc' = "cancelled" => Count(MyTx', Frame(SETTINGSTART)) = 0
        /\ sess' = "closed" => (startPc' \in {"done", "cancelled"} /\ streamPc' = "failed")
      ]_vars

C4_Witness ==
    /\ sess = "closed" /\ peerClosed /\ aborted
    /\ startPc = "cancelled"
    /\ MyTx = <<Frame(REBOOTCCO)>>

---------------------------------------------------------------------------
(* C5: draining *)

\* C5 as stated: the session is closed only after it has drained (waited the
\* settle interval and forwarded the last buffered lines).
C5_ClosedOnlyAfterDraining == sess = "closed" => drained

---------------------------------------------------------------------------
(* C6: busy markers *)

\* C6: a line that begins with a busy marker decodes to the busy outcome
\* (503 Transmitter busy), whatever follows the marker and whatever command
\* is expected.
C6_BusyMarkerYieldsBusy ==
    (op = "decode" /\ StartsBusy(args.res)) =>
        result = HTTPException(503, "Transmitter busy")

C6_Witness ==
    /\ op = "decode" /\ startswith(args.res, STAGROUPBUSY)
    /\ Len(split(args.res, COLON)) = 2
    /\ result.status = 503

---------------------------------------------------------------------------
(* C7: validation of a non-busy line *)

\* C7 as stated: decode of a non-busy line fails as a malformed frame when
\* the line has not 3 fields, else as bad marker when field 0 does not start
\* with ##, else as command mismatch when field 1 is not the expected
\* command, each surfaced as the protocol error (HTTP 500 with that detail).
C7_ProtocolErrors ==
    (op = "decode" /\ ~StartsBusy(args.res)) =>
        LET fields == split(args.res, COLON) IN
        IF Len(fields) # 3
        THEN result = HTTPException(500, "Expect 3 fields separated by :")
        ELSE IF ~startswith(fields[1], HASH_MARK)
        THEN result = HTTPException(500, "Expect response to start with ##")
        ELSE IF fields[2] # args.cmd
        THEN result = HTTPException(500, "Incorrect command")
        ELSE TRUE

---------------------------------------------------------------------------
(* C8: at most one attempt per call *)

OneShotOps ==
    { "list_cco", "set_txpower", "clear_whitelist", "get_txpower", "get_access_time",
      "get_frequency_band", "get_dimming_channel", "get_modbus_rtu_node_address",
      "get_ip_address" }
FirstReplyFails ==
    \/ FirstReply = <<>>
    \/ StartsBusy(FirstReply)
    \/ Len(split(FirstReply, COLON)) # 3
    \/ ~startswith(FirstReply, HASH_MARK)

\* C8: a command/response operation writes its request frame exactly once
\* and, after a reply that fails it (timeout, busy, decode error), reads no
\* further line and writes nothing more; the call ends with an error.
C8_AtMostOneAttempt ==
    /\ Done /\ op \in OneShotOps => (Len(MyTx) = 1 /\ MyReads = 1)
    /\ (Done /\ op \in OneShotOps \cup {"set_sta_group"} /\ FirstReplyFails) =>
          /\ Len(MyTx) = 1
          /\ MyReads = 1
          /\ op # "clear_whitelist" => result.kind # "ok"
          /\ FirstReply = <<>> => result.kind # "ok"

C8_Witness ==
    /\ Returned("set_txpower") /\ args.txpower = 15
    /\ script = << <<>> >>
    /\ MyTx = <<__encode__(UID, SetTxPower, Text(<<"1", "5">>))>>
    /\ MyReads = 1 /\ result.kind = "HTTPException"

---------------------------------------------------------------------------
(* C9: timeout and busy are distinct failures *)

\* C9: after the frame is written, an empty read fails the call with
\* 500 'LoRa response timeout' and a reply beginning with a busy marker fails
\* it with 503 'Transmitter busy'.
C9_TimeoutAndBusy ==
    (Done /\ op \in {"list_cco", "set_txpower", "set_sta_group"}) =>
        /\ FirstReply = <<>> => result = HTTPException(500, "LoRa response timeout")
        /\ StartsBusy(FirstReply) => result = HTTPException(503, "Transmitter busy")

C9_Witness ==
    /\ Returned("list_cco") /\ script = <<WHBUSY \o CRCRLF>>
    /\ result.status = 503 /\ result.detail = "Transmitter busy"

---------------------------------------------------------------------------
(* C10: argument validation precedes I/O *)

\* C10 as stated: a group set or group dimming call with a group id outside
\* 1..8 is rejected before a transport is opened or a byte is written.
C10_GroupRejectedBeforeIO ==
    (Done /\ op \in {"set_sta_group", "dim_group"} /\ args.group \notin 1..8) =>
        /\ MyOpens = 0
        /\ MyTx = <<>>
        /\ result.kind # "ok"

(* C11: set_sta_group sends the adapter address, the group padded to 12     *)
(* digits and "01", and succeeds only when the second reply carries the    *)
(* requested group; against a transmitter that stores the group, the set   *)
(* succeeds and a following get_sta_group returns the group                *)
C11_SetThenQueryReturnsGroup ==
    /\ Returned("set_sta_group") =>
          /\ MyTx[1] = AT_MARK \o UID \o <<COLON>> \o SET_DEVICE_GROUP \o <<COLON>>
                       \o args.sta_uid \o zfill(str(args.group), 12) \o <<"0", "1">> \o <<LF>>
          /\ result.kind = "ok" =>
                /\ Len(script) >= 2
                /\ script[2] = Reply(SET_DEVICE_GROUP, args.sta_uid \o str(args.group))
          /\ Answered(StoredGroup(args.sta_uid, args.group)) => result.kind = "ok"
    /\ \A g \in Groups :
          (Returned("get_sta_group") /\ Answered(StoredGroup(args.sta_uid, g)))
              => result = Ok([group_id |-> g])

(* C12: in get_all_sta_groups an empty read ends the list: after k complete *)
(* GROUPS / SET_DEVICE_GROUP pairs and then silence the call returns the k *)
(* adapter addresses and the k group ids, in order, as two lists           *)
C12_SilenceEndsTheList ==
    \A k \in 0..2 :
        (Returned("get_all_sta_groups")
            /\ Answered(StoredGroups[k + 1] \o [i \in 1..MaxLongScript |-> <<>>])) =>
            result = Ok([sta_uids |-> List(SubSeq(<<Sta(1), Sta(2)>>, 1, k)),
                         group_ids |-> List(SubSeq(<<3, 8>>, 1, k))])

\* the line passes the three tests of the decoder for the command
Decodable(line, cmd) ==
    /\ ~StartsBusy(line)
    /\ Len(split(line, COLON)) = 3
    /\ startswith(line, HASH_MARK)
    /\ split(line, COLON)[2] = cmd

EmptyGroups ==
    { [sta_uids |-> Text(<<>>), group_ids |-> Text(<<>>)],
      [sta_uids |-> List(<<>>), group_ids |-> List(<<>>)] }

(* C20: when the first frame of an iteration of get_all_sta_groups does    *)
(* not decode, the call raises nothing and returns empty lists at once;    *)
(* the empty result never replaces pairs read in earlier iterations        *)
C20_DecodeFailureYieldsEmpty ==
    Returned("get_all_sta_groups") =>
        /\ (script # <<>> /\ script[1] # <<>> /\ ~Decodable(script[1], GROUPS)) =>
               (result.kind = "ok" /\ result.value \in EmptyGroups /\ MyReads = 1)
        /\ (result.kind = "ok" /\ result.value \in EmptyGroups) => MyReads = 1

\* the data text of a line that decodes for the command
DecodedText(line, cmd) == rstrip(split(line, COLON)[3])

\* the call read the first n lines of its script and none of them was empty
Arrived(n) == Len(script) >= n /\ \A i \in 1..n : script[i] # <<>>

(* C13: set_ip_address reads one reply in the dynamic branch and succeeds   *)
(* exactly when its text is "OK 0"; in the static branch it reads four,    *)
(* ignores three and succeeds exactly when the text of the fourth is       *)
(* "OK 1"; a timeout on a required line fails the call                     *)
C13_IpReplyHandling ==
    Returned("set_ip_address") =>
        LET n == IF args.ip_config.dynamic THEN 1 ELSE 4
            want == IF args.ip_config.dynamic THEN <<"O", "K", " ", "0">>
                    ELSE <<"O", "K", " ", "1">>
        IN  /\ MyReads <= n
            /\ Arrived(n) => MyReads = n
            /\ ~Arrived(n) => result = HTTPException(500, "LoRa response timeout")
            /\ result.kind = "ok" <=>
                  /\ Arrived(n)
                  /\ Decodable(script[n], SetDeviceIP)
                  /\ DecodedText(script[n], SetDeviceIP) = want

OctetSum(addr) == addr[1] + addr[2] + addr[3] + addr[4]
Dotted(addr) ==
    str(addr[1]) \o <<".">> \o str(addr[2]) \o <<".">> \o str(addr[3]) \o <<".">> \o str(addr[4])

\* the configuration of test_set_ip_address
TestIpConfig ==
    IpConfig(FALSE, <<192, 0, 0, 128>>, <<255, 255, 255, 128>>, <<192, 168, 0, 1>>)

\* the one frame written carries address, netmask, gateway, 1 and the sum of
\* the twelve octets plus 1, separated by single spaces
StaticIpFrameSent ==
    LET c == args.ip_config
        checksum == OctetSum(c.address) + OctetSum(c.netmask) + OctetSum(c.gateway) + 1
    IN  /\ Len(MyTx) = 1
        /\ MyTx[1] = AT_MARK \o UID \o <<COLON>> \o SetDeviceIP \o <<COLON>>
                     \o Dotted(c.address) \o <<" ">> \o Dotted(c.netmask) \o <<" ">>
                     \o Dotted(c.gateway) \o <<" ", "1", " ">> \o str(checksum)
                     \o <<LF>>

\* the frame written ends with the static flag and the given checksum
ChecksumSent(n) ==
    LET tail == <<" ", "1", " ">> \o str(n) \o <<LF>>
    IN  /\ Len(MyTx[1]) >= Len(tail)
        /\ SubSeq(MyTx[1], Len(MyTx[1]) - Len(tail) + 1, Len(MyTx[1])) = tail

(* C14 as stated: for a static IpConfig the data sent is the address, the  *)
(* netmask, the gateway, 1 and the checksum, where the checksum is the sum *)
(* of the twelve octets plus 1; it is 1475 for 192.0.0.128 /               *)
(* 255.255.255.128 / 192.168.0.1                                           *)
C14_ChecksumOfTestIs1475 ==
    (Returned("set_ip_address") /\ ~args.ip_config.dynamic) =>
        /\ StaticIpFrameSent
        /\ args.ip_config = TestIpConfig => ChecksumSent(1475)

(* C14, amended: the data sent for a static IpConfig is as stated, and the *)
(* checksum for 192.0.0.128 / 255.255.255.128 / 192.168.0.1 is 1575        *)
C14_StaticIpChecksum ==
    (Returned("set_ip_address") /\ ~args.ip_config.dynamic) =>
        /\ StaticIpFrameSent
        /\ args.ip_config = TestIpConfig => ChecksumSent(1575)

C14_Witness ==
    /\ Returned("set_ip_address")
    /\ args.ip_config = TestIpConfig
    /\ ChecksumSent(320 + 893 + 361 + 1)

(* C16: for every ControlMode value, set_control_mode succeeds against a    *)
(* transmitter that stores the five-field text it is sent, and a following *)
(* get_control_mode, answered with that text, returns the five flags set   *)
C16_ControlModeReadAfterWrite ==
    \A m \in ControlModes :
        /\ (Returned("set_control_mode") /\ args.control_mode = m /\ script = <<ECHO>>) =>
               result.kind = "ok"
        /\ (Returned("get_control_mode")
                /\ script = <<Reply(GETTYPE, control_mode_data(m))>>) =>
               result = Ok(m)

\* the request handlers that run a command sequence on the serial port
SequenceOps ==
    { "list_cco", "get_control_mode", "set_control_mode", "reset_control_mode",
      "get_dim_broadcast", "dim_broadcast",
      "get_txpower", "set_access_time", "set_frequency_band", "set_dimming_channel",
      "set_modbus_rtu_node_address", "get_startup_control", "set_startup_control",
      "set_txpower", "set_sta_group", "get_sta_group", "get_all_sta_groups",
      "set_ip_address", "dim_single", "disable_dim_single",
      "disable_group_dimming", "dim_group", "clear_whitelist", "get_whitelist",
      "set_whitelist", "get_access_time", "get_frequency_band",
      "get_dimming_channel", "get_modbus_rtu_node_address", "get_ip_address",
      "reboot", "get_status" }

(* C15 as stated: every sequence call opens exactly one transport and      *)
(* closes it on every exit path; it never holds or opens more than one     *)
C15_ExactlyOneTransport ==
    Done /\ op \in SequenceOps => (MyOpens = 1 /\ MyCloses = 1 /\ MyPeak = 1)

(* C15, amended: every sequence call closes each transport it opened on    *)
(* every exit path and never holds more than one at a time; it opens one,  *)
(* except set_whitelist and reset_control_mode, which open a second one    *)
(* after the call they are built on has returned and closed its own        *)
C15_TransportsClosedOneAtATime ==
    Done /\ op \in SequenceOps =>
        /\ MyOpens = MyCloses
        /\ MyPeak = 1
        /\ MyOpens \in {1, 2}
        /\ MyOpens = 2 =>
              /\ Done /\ op \in {"set_whitelist", "reset_control_mode"}
              /\ Len(MyTx) >= 2
        /\ (Returned("set_whitelist") /\ Len(MyTx) >= 2) => MyOpens = 2

C15_Witness ==
    /\ Returned("set_whitelist")
    /\ result.kind # "ok"
    /\ MyOpens = 2 /\ MyCloses = 2 /\ MyPeak = 1

\* the three levels as the transmitter reports them: decimal, space-separated
LevelsText(lv) == str(lv[1]) \o <<" ">> \o str(lv[2]) \o <<" ">> \o str(lv[3])

(* C17: dim_broadcast writes one SETDIMS frame and reads no reply; a        *)
(* following get_dim_broadcast against a transmitter that stores the       *)
(* levels returns the same ordered triple, as does every repeated read     *)
C17_BroadcastReadAfterWrite ==
    /\ Returned("dim_broadcast") =>
          /\ MyTx = << AT_MARK \o UID \o <<COLON>> \o <<"S", "E", "T", "D", "I", "M", "S">>
                       \o <<" ">> \o LevelsText(args.dimming_levels) \o <<LF>> >>
          /\ MyReads = 0
          /\ result.kind = "ok"
    /\ \A lv \in Levels :
          (Returned("get_dim_broadcast") /\ script = <<Reply(GETDIMS, LevelsText(lv))>>) =>
              result = Ok([dimming_levels |-> lv])

EchoSetters ==
    { "set_txpower", "set_access_time", "set_frequency_band", "set_dimming_channel",
      "set_modbus_rtu_node_address", "set_startup_control" }

\* the line the first read returned, the command and the data text of the
\* one frame written
FirstLine == IF script[1] = ECHO THEN echo(MyTx[1]) ELSE script[1]
SentCmd == split(MyTx[1], COLON)[2]
SentData == SubSeq(split(MyTx[1], COLON)[3], 1, Len(split(MyTx[1], COLON)[3]) - 1)

(* C18: each echo-validated setter writes one frame, reads one reply and   *)
(* succeeds exactly when the reply decodes against the command sent and    *)
(* its text equals the data sent; against a transmitter that stores the    *)
(* value, the matching getter then returns the value that was set          *)
C18_EchoValidatedSetters ==
    /\ Done /\ op \in EchoSetters =>
          /\ Len(MyTx) = 1 /\ MyReads = 1
          /\ result.kind = "ok" <=>
                /\ script # <<>> /\ FirstLine # <<>>
                /\ Decodable(FirstLine, SentCmd)
                /\ DecodedText(FirstLine, SentCmd) = SentData
    /\ \A p \in TxPowers :
          (Returned("get_txpower") /\ script = <<Reply(GetTxPower, str(p))>>) =>
              result = Ok([txpower |-> p])
    /\ (Returned("get_startup_control")
            /\ script = <<Reply(GetStartContral, <<"1", " ", "5", "0", " ", "1", "0">>)>>) =>
          result = Ok([is_enabled |-> TRUE, default_dimming |-> 50])

(* C19: for every line that is not busy and reads ## address : expected    *)
(* command : data followed by CR/LF bytes, decode raises nothing and       *)
(* returns the address without the marker and the data text with the       *)
(* trailing CR/LF stripped; the other fields are not stripped              *)
C19_DecodeSucceeds ==
    (op = "decode" /\ Decodable(args.res, args.cmd)) =>
        LET fields == split(args.res, COLON)
        IN  result = Ok(<<SubSeq(fields[1], Len(HASH_MARK) + 1, Len(fields[1])),
                          rstrip(fields[3])>>)

---------------------------------------------------------------------------
(* C21: a page echo that is not a prefix aborts the whitelist write *)

\* C21: in set_whitelist, when the text echoed for a WHMLIST page is not a
\* prefix of the data sent for that page, the call writes WHEND, fails with
\* the write-mismatch error and writes no further page; when the echo is a
\* prefix, the next page, if any, starts at the index advanced by 4.
C21_MismatchAbortsPaging ==
    Returned("set_whitelist") =>
        /\ (Answered(<<ECHO, ECHO, Reply(WHMLIST, <<"9">>)>>)
                /\ Len(args.sta_list) > 0) =>
               /\ Len(PagesWritten) = 1
               /\ MyTx[Len(MyTx)] = Frame(WHEND)
               /\ result = HTTPException(500, "Unknown failure in setting whitelist")
        /\ (Answered(<<ECHO, ECHO, ECHO, ECHO>>) /\ Len(args.sta_list) > 4) =>
               /\ Len(PagesWritten) = 2
               /\ startswith(PagesWritten[2],
                             AT_MARK \o UID \o <<COLON>> \o WHMLIST \o <<COLON>>
                               \o <<"4", " ">>)

---------------------------------------------------------------------------
(* C22: order of the writes of a whitelist write *)

\* the line read in answer to the i-th frame written
ReplyTo(i) == IF script[i] = ECHO THEN echo(MyTx[i]) ELSE script[i]

\* the data text of a frame written with a data field
DataOf(frame) ==
    LET body == split(frame, COLON)[3] IN SubSeq(body, 1, Len(body) - 1)

\* whenever the call wrote a frame, it had read one line after each frame it
\* wrote before
ReadBetweenWrites ==
    \A j \in 1..Len(log) :
        log[j].e = "write" =>
            Calls(SubSeq(log, 1, j), "readline") = Calls(SubSeq(log, 1, j), "write") - 1

\* C22: the frames set_whitelist writes are, in this order, WHCLR, WHSTART,
\* WHMLIST pages and WHEND; WHSTART is written only after a reply to WHCLR
\* has been read, the first page only after the WHSTART reply has been read
\* and decodes, each further page only after the echo of the page before it
\* has been read and is a prefix of that page's data. A run in which the
\* transmitter echoes every frame writes the whole sequence: WHCLR, WHSTART,
\* the pages of the list and, last, WHEND.
C22_WritesInOrder ==
    /\ (Returned("set_whitelist") /\ EchoesAlways) =>
            /\ Len(MyTx) >= 3
            /\ MyTx[Len(MyTx)] = Frame(WHEND)
            /\ \A i \in 3..(Len(MyTx) - 1) : IsPage(MyTx[i])
    /\ op = "set_whitelist" => ReadBetweenWrites
    /\ Returned("set_whitelist") =>
            /\ Len(MyTx) >= 1 /\ MyTx[1] = Frame(WHCLR)
            /\ Len(MyTx) >= 2 =>
                  /\ MyTx[2] = Frame(WHSTART)
                  /\ Len(script) >= 1 /\ ReplyTo(1) # <<>>
            /\ \A i \in 3..Len(MyTx) :
                  \/ IsPage(MyTx[i])
                  \/ i = Len(MyTx) /\ MyTx[i] = Frame(WHEND)
            /\ Len(MyTx) >= 3 =>
                  /\ Len(script) >= 2
                  /\ Decodable(ReplyTo(2), WHSTART)
            /\ \A i \in 4..Len(MyTx) :
                  IsPage(MyTx[i]) =>
                      /\ Len(script) >= i - 1
                      /\ Decodable(ReplyTo(i - 1), WHMLIST)
                      /\ startswith(DataOf(MyTx[i - 1]), DecodedText(ReplyTo(i - 1), WHMLIST))

---------------------------------------------------------------------------
(* C23: reading the whitelist *)

\* a WHMULT page: start index, page length, total count and the addresses
WhitelistPage(index, length, total, stas) ==
    Reply(WHMULT, join(<<" ">>, <<str(index), str(length), str(total)>> \o stas))

\* C23: get_whitelist writes WHSGET once, reads WHMULT pages and returns the
\* addresses of the pages read, in arrival order; the page whose header has
\* index + length = total is the last one read; a transmitter that goes
\* silent before that page ends the call with the timeout error.
C23_WhitelistPagesConcatenated ==
    Returned("get_whitelist") =>
        /\ MyTx = <<Frame(<<"W", "H", "S", "G", "E", "T">>)>>
        /\ Answered(<<WhitelistPage(0, 1, 2, <<Sta(1)>>),
                       WhitelistPage(1, 1, 2, <<Sta(2)>>)>>) =>
               (result = Ok([whitelist |-> <<Sta(1), Sta(2)>>]) /\ MyReads = 2)
        /\ (script # <<>> /\ script[1] = WhitelistPage(0, 1, 1, <<Sta(1)>>)) =>
               (result = Ok([whitelist |-> <<Sta(1)>>]) /\ MyReads = 1)
        /\ (Answered(<< <<>> >>) \/ Answered(<<WhitelistPage(0, 1, 2, <<Sta(1)>>), <<>>>>)) =>
               result = HTTPException(500, "LoRa response timeout")

---------------------------------------------------------------------------
(* C24: the two phases of a group query *)

\* C24: get_sta_group writes SET_DEVICE_GROUP with the adapter address,
\* twelve zeros and "00"; a first reply that decodes for GROUPS with a text
\* other than the address fails the call with the inconsistent-response
\* error before a second read; so does a second reply that decodes for
\* SET_DEVICE_GROUP with a text not starting with the address; otherwise the
\* call returns the integer that follows the address in the second reply.
C24_GroupQueryTwoPhase ==
    Returned("get_sta_group") =>
        LET sta == args.sta_uid
            mismatch == HTTPException(500, "STA UID response does not match")
        IN  /\ MyTx = << AT_MARK \o UID \o <<COLON>> \o SET_DEVICE_GROUP \o <<COLON>> \o sta
                         \o <<"0", "0", "0", "0", "0", "0", "0", "0", "0", "0", "0", "0">>
                         \o <<"0", "0">> \o <<LF>> >>
            /\ (Len(script) >= 1 /\ script[1] = Reply(GROUPS, Sta(2))) =>
                   (result = mismatch /\ MyReads = 1)
            /\ Answered(<<Reply(GROUPS, sta),
                           Reply(SET_DEVICE_GROUP, Sta(2) \o str(8))>>) =>
                   (result = mismatch /\ MyReads = 2)
            /\ Answered(StoredGroup(sta, 3)) =>
                   (result = Ok([group_id |-> 3]) /\ MyReads = 2)

---------------------------------------------------------------------------
(* C25: binary dimming frames *)

\* the numbers two bytes hold
TwoBytes == 0..65535

\* a level or group id as two bytes, most significant first
BigEndian2(n) == <<Byte(n \div 256), Byte(n % 256)>>

\* the six bytes an adapter address of twelve hex digits stands for
StaBytes(sta) ==
    [i \in 1..6 |-> Byte(16 * hex_value(sta[2 * i - 1]) + hex_value(sta[2 * i]))]

\* an adapter address of twelve hex digits
HexUid(sta) == \A i \in 1..Len(sta) : hex_value(sta[i]) < 16

\* @@ + address + : + DIMALL3, the payload right after the command, newline
DimFrame(levels, target, mode) ==
    AT_MARK \o UID \o <<COLON>> \o DIMALL3
      \o BigEndian2(levels[1]) \o BigEndian2(levels[2]) \o BigEndian2(levels[3])
      \o target \o <<mode>> \o <<LF>>

\* C25: dim_single, disable_dim_single, dim_group and disable_group_dimming
\* each write one frame: @@, the address, ':' and DIMALL3, followed with no
\* ':' by three 2-byte big-endian levels, the 6-byte adapter address or four
\* zero bytes and the 2-byte group id, the mode byte 04, 05, 06 or 07, and
\* a newline.
C25_BinaryDimmingFrames ==
    LET zeros == <<0, 0, 0>>
        zero4 == <<"x00", "x00", "x00", "x00">>
        fits(lv) == \A i \in 1..3 : lv[i] \in TwoBytes
    IN  /\ (Returned("dim_single") /\ fits(args.dimming_levels)
                /\ HexUid(args.sta_uid)) =>
              MyTx = <<DimFrame(args.dimming_levels, StaBytes(args.sta_uid), "x04")>>
        /\ (Returned("disable_dim_single") /\ fits(args.dimming_levels)
                /\ HexUid(args.sta_uid)) =>
              MyTx = <<DimFrame(args.dimming_levels, StaBytes(args.sta_uid), "x05")>>
        /\ (Returned("dim_group") /\ fits(args.dimming_levels)
                /\ args.group \in TwoBytes) =>
              MyTx = <<DimFrame(args.dimming_levels, zero4 \o BigEndian2(args.group), "x06")>>
        /\ (Returned("disable_group_dimming") /\ args.group \in TwoBytes) =>
              MyTx = <<DimFrame(zeros, zero4 \o BigEndian2(args.group), "x07")>>

---------------------------------------------------------------------------
(* C26: the start task's trigger sequence *)

\* C26: in a discovery session the start task writes REBOOTCCO first, stays in
\* its settle interval, then writes SETTINGSTART; each is written at most once
\* and REBOOTCCO before SETTINGSTART. The start task's completion does not end
\* the session: the session is closed only by a failure of the streaming
\* task, and after the completion the streaming loop can still read the
\* device's lines and poll the peer.
C26_TriggerSequence ==
    op = "rebuild" =>
        /\ Count(MyTx, Frame(REBOOTCCO)) <= 1
        /\ Count(MyTx, Frame(SETTINGSTART)) <= 1
        /\ startPc \in {"none", "created"} => MyTx = <<>>
        /\ startPc \notin {"none", "created"} => MyTx[1] = Frame(REBOOTCCO)
        /\ startPc \in {"sleeping", "cancelled"} => Count(MyTx, Frame(SETTINGSTART)) = 0
        /\ startPc = "done" => Count(MyTx, Frame(SETTINGSTART)) = 1
        /\ sess = "closed" => streamPc = "failed"
        /\ (startPc = "done" /\ sess = "taskgroup")
              => /\ streamPc \in {"created", "loop"} => ENABLED StreamReadlines
                 /\ streamPc = "send_text" => ENABLED StreamSendText
                 /\ streamPc = "poll" => ENABLED StreamPoll

\* the start task has completed, the streaming loop has since polled a STOP
\* and is about to forward a device line
C26_Witness ==
    /\ sess = "taskgroup" /\ startPc = "done"
    /\ MyTx = <<Frame(REBOOTCCO), Frame(SETTINGSTART), Frame(WHITESTOP)>>
    /\ streamPc = "send_text" /\ pending # <<>>

---------------------------------------------------------------------------
(* C27: the stop signal *)

\* C27: every step in which the streaming loop receives the text STOP appends
\* exactly one WHITESTOP frame to the transport, goes back to the head of the
\* loop and leaves the session and the start task as they are; a step that
\* receives any other text, or nothing, writes nothing. At the head of the loop
\* the next read of the device's lines is enabled.
C27_StopWritesWhitestop ==
    /\ [][ (sess = "taskgroup" /\ streamPc = "poll" /\ streamPc' # "poll") =>
             IF wsIn # <<>> /\ Head(wsIn) = "STOP"
             THEN /\ MyTx' = Append(MyTx, Frame(WHITESTOP))
                  /\ streamPc' = "loop"
                  /\ sess' = "taskgroup" /\ startPc' = startPc
                  /\ wsIn' = Tail(wsIn)
             ELSE MyTx' = MyTx
          ]_vars
    /\ []((sess = "taskgroup" /\ streamPc = "loop" /\ startPc # "created")
            => ENABLED StreamReadlines)

\* two STOPs have been received and answered, and the loop is still running
C27_Witness ==
    /\ sess = "taskgroup" /\ streamPc = "loop"
    /\ Count(MyTx, Frame(WHITESTOP)) = 2
    /\ wsIn = <<>> /\ ~peerClosed

---------------------------------------------------------------------------
(* C28: release of the session's transport *)

\* C28 as stated: when the discovery session is closed, the transport it
\* opened at its start has been closed.
C28_TransportReleasedAtClose ==
    (op = "rebuild" /\ sess = "closed") => MyCloses = MyOpens

---------------------------------------------------------------------------
(* C29: writes of the two tasks *)

\* the frames each task of a discovery session writes
StartFrames == {Frame(REBOOTCCO), Frame(SETTINGSTART)}
StreamFrames == {Frame(WHITESTOP)}

\* C29: in a discovery session every write to the transport is one whole
\* frame made by one step of one task: REBOOTCCO or SETTINGSTART by a step of
\* the start task that leaves the streaming task where it is, WHITESTOP by a
\* step of the streaming task that leaves the start task where it is; so the
\* transport holds a sequence of whole frames in every interleaving.
C29_WholeFrames ==
    /\ [][ (op = "rebuild" /\ MyTx' # MyTx) =>
             \/ /\ \E f \in StartFrames : MyTx' = Append(MyTx, f)
                /\ startPc' # startPc /\ streamPc' = streamPc
             \/ /\ \E f \in StreamFrames : MyTx' = Append(MyTx, f)
                /\ streamPc' # streamPc /\ startPc' = startPc
          ]_vars
    /\ [](op = "rebuild" =>
            \A i \in 1..Len(MyTx) : MyTx[i] \in StartFrames \cup StreamFrames)

\* frames of the two tasks alternate on the transport
C29_Witness ==
    /\ op = "rebuild"
    /\ MyTx = <<Frame(REBOOTCCO), Frame(WHITESTOP), Frame(SETTINGSTART), Frame(WHITESTOP)>>

---------------------------------------------------------------------------
(* C30: a STOP inside the settle interval *)

\* C30: a STOP that the streaming loop receives while the start task is in its
\* settle interval writes WHITESTOP in that very step and leaves the start
\* task in the interval; as long as the start task is in the interval of a
\* running session the end of the interval is enabled, whatever has been
\* written meanwhile, and the step that ends it appends SETTINGSTART.
C30_StopDuringSettle ==
    /\ [][ (sess = "taskgroup" /\ startPc = "sleeping" /\ streamPc = "poll"
              /\ streamPc' # "poll" /\ wsIn # <<>> /\ Head(wsIn) = "STOP")
            => (MyTx' = Append(MyTx, Frame(WHITESTOP)) /\ startPc' = "sleeping")
          ]_vars
    /\ [][ (startPc = "sleeping" /\ startPc' = "done")
            => MyTx' = Append(MyTx, Frame(SETTINGSTART))
          ]_vars
    /\ []((sess = "taskgroup" /\ startPc = "sleeping") => ENABLED StartResearch)

\* WHITESTOP went out inside the settle interval and SETTINGSTART after it
C30_Witness ==
    /\ sess = "taskgroup" /\ startPc = "done"
    /\ MyTx = <<Frame(REBOOTCCO), Frame(WHITESTOP), Frame(SETTINGSTART)>>

---------------------------------------------------------------------------
(* C31: the first three lines of the static reply *)

\* the reply script sc with every line that arrives among its first three
\* replaced by the same busy line
FirstThreeBlanked(sc) ==
    [i \in 1..Len(sc) |-> IF i <= 3 /\ sc[i] # <<>> THEN WHBUSY \o CRCRLF ELSE sc[i]]

\* C31: a static set_ip_address ends with the result, the number of reads and
\* the write of the run whose first three lines, where they arrive, are all
\* the same busy line; so two runs whose reply scripts differ only in the
\* content of the first three lines (a busy marker or a malformed frame there
\* included) end with the same result.
C31_FirstThreeLinesIgnored ==
    (Returned("set_ip_address") /\ ~args.ip_config.dynamic) =>
        LET s == set_ip_address(NewPort(FirstThreeBlanked(script)), UID, args.ip_config)
        IN  s.exc = result /\ s.reads = MyReads /\ s.tx = MyTx

\* four lines arrived; a busy marker and a malformed frame were among the
\* first three
C31_Witness ==
    /\ Returned("set_ip_address") /\ ~args.ip_config.dynamic
    /\ MyReads = 4 /\ Arrived(4)
    /\ StartsBusy(script[1])
    /\ Len(split(script[2], COLON)) # 3
    /\ script[4] = Reply(SetDeviceIP, <<"O", "K", " ", "1">>)

---------------------------------------------------------------------------
(* C32: the button field of SETTYPE *)

Flag(b) == IF b THEN "1" ELSE "0"

\* the 5-field text for a control mode, with "1" in the button position
SettypeText(m) ==
    <<Flag(m.analog), " ", "1", " ", Flag(m.modbus), " ", Flag(m.bacnet), " ", Flag(m.debug)>>

\* C32: set_control_mode writes one SETTYPE frame whose data has "1" in the
\* second (button) field whatever control_mode.button is, and "1" or "0" in
\* the other four fields according to their flags; the call succeeds only if
\* the reply decodes against SETTYPE and its text equals the text sent.
C32_ButtonAlwaysOn ==
    Returned("set_control_mode") =>
        /\ MyTx = << AT_MARK \o UID \o <<COLON>> \o <<"S", "E", "T", "T", "Y", "P", "E">>
                     \o <<COLON>> \o SettypeText(args.control_mode) \o <<LF>> >>
        /\ result.kind = "ok" =>
              /\ Arrived(1)
              /\ Decodable(FirstLine, <<"S", "E", "T", "T", "Y", "P", "E">>)
              /\ DecodedText(FirstLine, <<"S", "E", "T", "T", "Y", "P", "E">>)
                    = SettypeText(args.control_mode)

\* a mode with the button flag off was sent and the transmitter echoed it
C32_Witness ==
    /\ Returned("set_control_mode")
    /\ ~args.control_mode.button /\ args.control_mode.analog /\ ~args.control_mode.debug
    /\ script # <<>> /\ script[1] = ECHO /\ MyReads = 1
    /\ DataOf(MyTx[1]) = <<"1", " ", "1", " ", "0", " ", "0", " ", "0">>

---------------------------------------------------------------------------
(* C33: the reply to WHCLR *)

\* C33: clear_whitelist writes WHCLR, reads once and succeeds exactly when
\* that read returns a line, whatever the line is; otherwise it fails with
\* the timeout. set_whitelist, whose first step it is, stops with the
\* timeout after WHCLR when no line arrives and goes on to write WHSTART when
\* any line arrives.
C33_AnyReplyClears ==
    /\ Returned("clear_whitelist") =>
          /\ MyTx = <<Frame(WHCLR)>> /\ MyReads = 1
          /\ result.kind = "ok" <=> FirstReply # <<>>
          /\ result.kind # "ok" => result = HTTPException(500, "LoRa response timeout")
    /\ Returned("set_whitelist") =>
          /\ MyTx[1] = Frame(WHCLR)
          /\ FirstReply = <<>> =>
                (MyTx = <<Frame(WHCLR)>> /\ result = HTTPException(500, "LoRa response timeout"))
          /\ FirstReply # <<>> => (Len(MyTx) >= 2 /\ MyTx[2] = Frame(WHSTART))

\* clear_whitelist succeeded on a busy marker
C33_Witness ==
    /\ Returned("clear_whitelist") /\ result.kind = "ok"
    /\ script # <<>> /\ StartsBusy(script[1])

====
